---- MODULE Spec2Model ----
(***************************************************************************)
(* YaraBench: the rule-extraction and scoring pipeline.                    *)
(*                                                                         *)
(* Text is modelled as a sequence of lexemes (tokens): every lexeme the    *)
(* code searches for ("rule", "{", "condition:", a fence, a quote, one     *)
(* whitespace character, ...) is one token, so that a substring test of    *)
(* the code is a contiguous-subsequence test here and a regular            *)
(* expression of the code is the same expression over tokens.              *)
(* Floats are modelled as exact rationals <<numerator, denominator>>.      *)
(***************************************************************************)
EXTENDS Integers, Sequences, FiniteSets, TLC

(***************************************************************************)
(* Python values                                                           *)
(***************************************************************************)
\* None, and also the empty string / empty list (all falsy in Python)
None == <<>>

Truthy(x) == x # <<>>

(***************************************************************************)
(* Exact rationals for Python floats                                       *)
(***************************************************************************)
RECURSIVE Gcd(_, _)
Gcd(a, b) == IF b = 0 THEN a ELSE Gcd(b, a % b)


\* n/d in lowest terms with d > 0
Rat(n, d) ==
    LET g == Gcd(IF n < 0 THEN -n ELSE n, IF d < 0 THEN -d ELSE d)
        s == IF d < 0 THEN -1 ELSE 1
    IN  <<(s * n) \div g, (s * d) \div g>>

RAdd(x, y) == Rat(x[1] * y[2] + y[1] * x[2], x[2] * y[2])
RMul(x, y) == Rat(x[1] * y[1], x[2] * y[2])
RDiv(x, y) == Rat(x[1] * y[2], x[2] * y[1])
RLe(x, y) == x[1] * y[2] <= y[1] * x[2]
RZero == Rat(0, 1)
ROne == Rat(1, 1)
\* a weight written in the source as a decimal with two places, e.g. 0.35
Hundredths(n) == Rat(n, 100)

(***************************************************************************)
(* Strings as token sequences                                              *)
(***************************************************************************)
\* str.lower()
LowerTok(t) ==
    CASE t = "RULE" -> "rule"
      [] t = "Rule" -> "rule"
      [] t = "Not" -> "not"
      [] t = "Actionable" -> "actionable"
      [] t = "YARA" -> "yara"
      [] t = "PE" -> "pe"
      [] t = "CONDITION:" -> "condition:"
      [] OTHER -> t

Lower(s) == [i \in 1..Len(s) |-> LowerTok(s[i])]

\* \s
Space == {" ", "\n", "\t"}
\* tokens made of word characters only (\w+)
Word == {"rule", "RULE", "Rule", "R", "S", "true", "yara", "YARA", "yaml",
         "import", "pe", "PE", "filesize", "evil", "bad", "6576696c",
         "strings", "condition", "meta", "not", "Not", "actionable",
         "Actionable", "cannot", "create", "Here", "is", "the", "a"}

\* s[a+1 .. b] (Python's s[a:b])
Slice(s, a, b) == IF b <= a THEN <<>> ELSE SubSeq(s, a + 1, b)

\* sub occurs in s starting at offset i (0-based)
OccursAt(sub, s, i) ==
    /\ i + Len(sub) <= Len(s)
    /\ \A k \in 1..Len(sub) : s[i + k] = sub[k]

\* Python's "sub in s"
Contains(s, sub) == \E i \in 0..(Len(s) - Len(sub)) : OccursAt(sub, s, i)

\* str.count(tok) for a one-token needle
Count(s, tok) == Cardinality({i \in 1..Len(s) : s[i] = tok})

\* the least element of a non-empty set of integers
MinOf(S) == CHOOSE m \in S : \A x \in S : m <= x
MaxOf(S) == CHOOSE m \in S : \A x \in S : x <= m

\* str.find(sub, from): least offset >= from, or -1
Find(s, sub, from) ==
    LET hits == {i \in from..(Len(s) - Len(sub)) : OccursAt(sub, s, i)}
    IN  IF hits = {} THEN -1 ELSE MinOf(hits)

\* str.lstrip(), str.rstrip(), str.strip(): drop leading and trailing whitespace
LStrip(s) ==
    LET solid == {i \in 1..Len(s) : s[i] \notin Space}
    IN  IF solid = {} THEN <<>> ELSE SubSeq(s, MinOf(solid), Len(s))
Strip(s) ==
    LET solid == {i \in 1..Len(s) : s[i] \notin Space}
    IN  IF solid = {} THEN <<>> ELSE SubSeq(s, MinOf(solid), MaxOf(solid))

\* keep the first occurrence of every element
Dedup(q) ==
    LET first == SelectSeq([k \in 1..Len(q) |-> k],
                           LAMBDA k : \A j \in 1..(k - 1) : q[j] # q[k])
    IN  [k \in 1..Len(first) |-> q[first[k]]]

\* the concatenation of qq[lo..hi]
RECURSIVE FlattenRange(_, _, _)
FlattenRange(qq, lo, hi) ==
    IF lo > hi THEN <<>>
    ELSE IF lo = hi THEN qq[lo]
    ELSE LET mid == (lo + hi) \div 2
         IN  FlattenRange(qq, lo, mid) \o FlattenRange(qq, mid + 1, hi)

Flatten(qq) == FlattenRange(qq, 1, Len(qq))

(***************************************************************************)
(* Python's re module over tokens: a backtracking matcher.                 *)
(* Ends(re, s, i, ic) lists the end offsets of the matches of re starting  *)
(* at offset i of s, in the order in which backtracking tries them.        *)
(* ic is re.IGNORECASE; "." always matches (re.DOTALL); "$" and "^" are    *)
(* the re.MULTILINE anchors unless marked absolute.                        *)
(***************************************************************************)
Lit(c) == [t |-> "lit", c |-> c]
In(S) == [t |-> "set", s |-> S]
NotIn(S) == [t |-> "nset", s |-> S]
Dot == [t |-> "any"]
Cat(a) == [t |-> "cat", a |-> a]
Alt(a) == [t |-> "alt", a |-> a]
Star(r) == [t |-> "star", a |-> <<r>>, lazy |-> FALSE]
LazyStar(r) == [t |-> "star", a |-> <<r>>, lazy |-> TRUE]
Plus(r) == Cat(<<r, Star(r)>>)
\* $ and ^ under re.MULTILINE; [t |-> "end"] is $ without it (at the end, or
\* before a final newline) and [t |-> "notnext", c |-> x] is (?!x)
Eol == [t |-> "eol"]
Bol == [t |-> "bol"]

\* one-token expressions, and whether a token matches one
Single == {"lit", "set", "nset", "any"}
TokMatch(re, tok, ic) ==
    CASE re.t = "lit" -> IF ic THEN LowerTok(tok) = LowerTok(re.c) ELSE tok = re.c
      [] re.t = "set" -> tok \in re.s
      [] re.t = "nset" -> tok \notin re.s
      [] re.t = "any" -> TRUE

\* the end of the longest run of tokens matching re from offset i
RunEnd(re, s, i, ic) ==
    CHOOSE k \in i..Len(s) :
        /\ \A m \in (i + 1)..k : TokMatch(re, s[m], ic)
        /\ k = Len(s) \/ ~TokMatch(re, s[k + 1], ic)

\* a sequence of expressions: the ends of parts k..n from each of the offsets
\* in starts, in order; sub[k, j] lists the ends of part k from offset j
RECURSIVE CatEnds(_, _, _, _)
CatEnds(sub, n, k, starts) ==
    IF k > n \/ starts = <<>> THEN starts
    ELSE CatEnds(sub, n, k + 1,
                 Dedup(Flatten([m \in 1..Len(starts) |-> sub[k, starts[m]]])))

\* r* from offset i: an iteration must consume something; fuel bounds the depth
RECURSIVE StarEnds(_, _, _, _)
StarEnds(sub, i, lazy, fuel) ==
    LET once == SelectSeq(sub[1, i], LAMBDA e : e > i)
        more == IF fuel = 0 \/ once = <<>> THEN <<>>
                ELSE Flatten([k \in 1..Len(once) |-> StarEnds(sub, once[k], lazy, fuel - 1)])
    IN  IF lazy THEN Dedup(<<i>> \o more) ELSE Dedup(more \o <<i>>)

RECURSIVE Ends(_, _, _, _)
Ends(re, s, i, ic) ==
    LET sub == [k \in 1..Len(re.a), j \in 0..Len(s) |-> Ends(re.a[k], s, j, ic)]
    IN  CASE re.t \in Single ->
               IF i < Len(s) /\ TokMatch(re, s[i + 1], ic) THEN <<i + 1>> ELSE <<>>
          [] re.t = "eol" -> IF i = Len(s) \/ s[i + 1] = "\n" THEN <<i>> ELSE <<>>
          [] re.t = "bol" -> IF i = 0 \/ s[i] = "\n" THEN <<i>> ELSE <<>>
          [] re.t = "end" ->
               IF i = Len(s) \/ (i = Len(s) - 1 /\ s[i + 1] = "\n") THEN <<i>> ELSE <<>>
          [] re.t = "notnext" -> IF i < Len(s) /\ s[i + 1] = re.c THEN <<>> ELSE <<i>>
          [] re.t = "cat" -> CatEnds(sub, Len(re.a), 1, <<i>>)
          [] re.t = "alt" -> Dedup(Flatten([k \in 1..Len(re.a) |-> sub[k, i]]))
          [] re.t = "star" ->
               IF re.a[1].t \in Single
               THEN LET k == RunEnd(re.a[1], s, i, ic)
                    IN  [j \in 1..(k - i + 1) |-> IF re.lazy THEN i + j - 1 ELSE k - j + 1]
               ELSE StarEnds(sub, i, re.lazy, Len(s) + 1)

\* the index of the first non-empty element of q, or 0
FirstNonEmpty(q) ==
    LET full == {k \in 1..Len(q) : q[k] # <<>>}
    IN  IF full = {} THEN 0 ELSE MinOf(full)

\* the first non-empty element of q, or <<>>
FirstOf(q) == IF FirstNonEmpty(q) = 0 THEN <<>> ELSE q[FirstNonEmpty(q)]

\* a pattern with one capturing group is <<before, group, after>>.
\* The group starts at a and may end at gs[k], after which the rest ends first
\* at tails[k]: <<group start, group end, match end>> for the first such k
GroupMatch(a, gs, tails) ==
    IF FirstNonEmpty(tails) = 0 THEN <<>>
    ELSE <<a, gs[FirstNonEmpty(tails)], tails[FirstNonEmpty(tails)][1]>>

AfterGroup(p, s, a, ic, gs) ==
    GroupMatch(a, gs, [k \in 1..Len(gs) |-> Ends(p[3], s, gs[k], ic)])

AfterStart(p, s, ic, as) ==
    FirstOf([k \in 1..Len(as) |-> AfterGroup(p, s, as[k], ic, Ends(p[2], s, as[k], ic))])

\* the first match at offset i: <<group start, group end, match end>>, or <<>>
MatchAt(p, s, i, ic) == AfterStart(p, s, ic, Ends(p[1], s, i, ic))

\* the non-overlapping matches, leftmost first, from offset i on:
\* <<match start, group start, group end, match end>>; at[j + 1] is the
\* match at offset j
RECURSIVE MatchesFrom(_, _)
MatchesFrom(at, i) ==
    LET hits == {j \in i..(Len(at) - 1) : at[j + 1] # <<>>}
        j == MinOf(hits)
    IN  IF hits = {} THEN <<>>
        ELSE <<<<j>> \o at[j + 1]>>
             \o MatchesFrom(at, IF at[j + 1][3] > j THEN at[j + 1][3] ELSE j + 1)

Matches(p, s, ic) == MatchesFrom([j \in 1..(Len(s) + 1) |-> MatchAt(p, s, j - 1, ic)], 0)

\* the groups of the matches ms in s
Groups(s, ms) == [k \in 1..Len(ms) |-> Slice(s, ms[k][2], ms[k][3])]

\* re.findall for a one-group pattern
FindAll(p, s, ic) == Groups(s, Matches(p, s, ic))

\* s with the k-th match replaced by repls[k]
RECURSIVE Splice(_, _, _, _, _)
Splice(s, ms, repls, k, pos) ==
    IF k > Len(ms) THEN Slice(s, pos, Len(s))
    ELSE Slice(s, pos, ms[k][1]) \o repls[k] \o Splice(s, ms, repls, k + 1, ms[k][4])

\* a replacement template: literal text around the group, which is kept
\* ("\1"), kept with a colon joined to it ("\1:") or dropped
Template(pre, group, post) == [pre |-> pre, group |-> group, post |-> post]

\* a bare section header and its form with the colon
WithColon(tok) ==
    CASE tok = "strings" -> "strings:"
      [] tok = "condition" -> "condition:"
      [] tok = "meta" -> "meta:"

Expand(repl, group) ==
    repl.pre
    \o (CASE repl.group = "keep" -> group
           [] repl.group = "colon" -> <<WithColon(group[1])>>
           [] repl.group = "drop" -> <<>>)
    \o repl.post

Replace(s, ms, repl) ==
    Splice(s, ms, [k \in 1..Len(ms) |-> Expand(repl, Slice(s, ms[k][2], ms[k][3]))], 1, 0)

\* re.sub(p, repl, s); no pattern of the code matches the empty string
Sub(p, repl, s, ic) == IF s = <<>> THEN <<>> ELSE Replace(s, Matches(p, s, ic), repl)

\* re.search as a truth value
Search(re, s, ic) == \E i \in 0..Len(s) : Ends(re, s, i, ic) # <<>>

(***************************************************************************)
(* parsing/yara_extractor.py                                               *)
(***************************************************************************)
Spaces == Star(In(Space))
Spaces1 == Plus(In(Space))
Ident == Plus(In(Word))
\* (?:import\s+"[^"]+"\s*\n)*
ImportLines ==
    Star(Cat(<<Lit("import"), Spaces1, Lit("\""), Plus(NotIn({"\""})), Lit("\""),
               Spaces, Lit("\n")>>))
\* rule\s+\w+\s*\{
RuleHead == Cat(<<Lit("rule"), Spaces1, Ident, Spaces, Lit("{")>>)
Whole(re) == <<Cat(<<>>), re, Cat(<<>>)>>

\* the markdown fence lexeme (three backquotes)
Ticks == "<fence>"

\* <fence><tag>\s*\n(.*?)<fence>
Fence(tag) ==
    <<Cat(<<Lit(Ticks)>> \o tag \o <<Spaces, Lit("\n")>>), LazyStar(Dot), Lit(Ticks)>>

CODE_BLOCK_PATTERNS ==
    <<Fence(<<Lit("yara")>>),
      Fence(<<>>),
      Fence(<<Lit("yaml")>>),
      Fence(<<Lit("YARA")>>),
      Fence(<<Lit("rule")>>)>>

YARA_RULE_PATTERNS ==
    <<Whole(Cat(<<ImportLines, Spaces, RuleHead, LazyStar(Dot), Lit("}"), Spaces, Eol>>)),
      Whole(Cat(<<RuleHead,
                  Star(Cat(<<Star(NotIn({"{", "}"})), Lit("{"), Star(NotIn({"{", "}"})), Lit("}")>>)),
                  Star(NotIn({"{", "}"})), Lit("}")>>)),
      Whole(Cat(<<RuleHead, LazyStar(Dot),
                  Alt(<<Lit("meta:"), Lit("strings:"), Lit("condition:")>>),
                  LazyStar(Dot), Lit("}"), Spaces, Eol>>)),
      Whole(Cat(<<Lit("rule"), Spaces1, Ident, Star(NotIn({"{"})), Lit("{"), LazyStar(Dot),
                  Lit("condition:"), LazyStar(Dot), Lit("}"), Spaces, Eol>>))>>

VALID_RULE_STRUCTURE ==
    Cat(<<Alt(<<Cat(<<ImportLines, Spaces>>), Cat(<<>>)>>), RuleHead, LazyStar(Dot),
          Lit("condition:"),
          Spaces, LazyStar(Dot), Lit("}")>>)

NO_RULE_INDICATORS ==
    <<<<"not", " ", "actionable">>,
      <<"cannot", " ", "be", " ", "detected">>,
      <<"no", " ", "yara", " ", "rule">>,
      <<"not", " ", "possible">>,
      <<"cannot", " ", "create">>,
      <<"not", " ", "suitable">>,
      <<"beyond", " ", "yara">>,
      <<"beyond", " ", "the", " ", "capabilities">>>>

\* variants of _indicates_no_rule: no phrase is ever recognised; the response
\* is searched without being lowercased
NoIndication(response) == FALSE
CaseSensitiveIndication(response) ==
    \E k \in 1..Len(NO_RULE_INDICATORS) : Contains(response, NO_RULE_INDICATORS[k])

_indicates_no_rule(response) ==
    LET response_lower == Lower(response)
    IN  \E k \in 1..Len(NO_RULE_INDICATORS) : Contains(response_lower, NO_RULE_INDICATORS[k])

_is_valid_rule_structure(rule) ==
    IF rule = <<>> \/ Strip(rule) = <<>> THEN FALSE
    ELSE Search(VALID_RULE_STRUCTURE, rule, TRUE)


\* str.split on newlines
SplitLines(s) ==
    LET at == {i \in 1..Len(s) : s[i] = "\n"}
        nl == [k \in 1..Cardinality(at) |->
                  CHOOSE x \in at : Cardinality({y \in at : y <= x}) = k]
        n == Len(nl)
    IN  [k \in 1..(n + 1) |->
            Slice(s, IF k = 1 THEN 0 ELSE nl[k - 1], IF k = n + 1 THEN Len(s) ELSE nl[k] - 1)]

\* str.join with newlines
JoinLines(lines) ==
    Flatten([k \in 1..(2 * Len(lines) - 1) |->
                IF k % 2 = 1 THEN lines[(k + 1) \div 2] ELSE <<"\n">>])

StartsWith(s, pre) == OccursAt(pre, s, 0)

\* the backward walk over the lines before the rule, looking for imports
RECURSIVE ImportStart(_, _, _, _)
ImportStart(text, lines_before, i, import_start) ==
    IF i < 1 THEN import_start
    ELSE LET line == Strip(lines_before[i])
         IN  IF StartsWith(line, <<"import", " ">>)
             THEN ImportStart(text, lines_before, i - 1, Find(text, lines_before[i], 0))
             ELSE IF line # <<>> THEN import_start
             ELSE ImportStart(text, lines_before, i - 1, import_start)

\* the loop with every brace counted, inside literals too
ScanStep_counting_literals(text, i, st) ==
    LET char == text[i + 1]
    IN  IF st.end_pos # -1 THEN st
        ELSE LET brace_count == IF char = "{" THEN st.brace_count + 1
                                ELSE IF char = "}" THEN st.brace_count - 1
                                ELSE st.brace_count
                 found_opening == st.found_opening \/ char = "{"
             IN  [st EXCEPT !.brace_count = brace_count, !.found_opening = found_opening,
                            !.end_pos = IF char = "}" /\ found_opening /\ brace_count = 0
                                        THEN i + 1 ELSE -1]

\* one iteration of the brace-matching loop on the character at offset i;
\* st.end_pos is set by the break
ScanStep(text, i, st) ==
    LET char == text[i + 1]
    IN  IF st.end_pos # -1 THEN st
        ELSE IF st.escape_next THEN [st EXCEPT !.escape_next = FALSE]
        ELSE IF char = "\\" THEN [st EXCEPT !.escape_next = TRUE]
        ELSE LET in_string == IF char = "\"" /\ ~st.in_regex THEN ~st.in_string ELSE st.in_string
                 in_regex == IF char = "/" /\ ~in_string THEN ~st.in_regex ELSE st.in_regex
                 counted == ~in_string /\ ~in_regex
                 brace_count == IF counted /\ char = "{" THEN st.brace_count + 1
                                ELSE IF counted /\ char = "}" THEN st.brace_count - 1
                                ELSE st.brace_count
                 found_opening == st.found_opening \/ (counted /\ char = "{")
             IN  [in_string |-> in_string, in_regex |-> in_regex, escape_next |-> FALSE,
                  brace_count |-> brace_count, found_opening |-> found_opening,
                  end_pos |-> IF counted /\ char = "}" /\ found_opening /\ brace_count = 0
                              THEN i + 1 ELSE -1]

\* the loop over the offsets lo..hi-1
RECURSIVE ScanRange(_, _, _, _)
ScanRange(text, lo, hi, st) ==
    IF lo >= hi THEN st
    ELSE IF lo + 1 = hi THEN ScanStep(text, lo, st)
    ELSE LET mid == (lo + hi) \div 2
             half == ScanRange(text, lo, mid, st)
         IN  IF half.end_pos # -1 THEN half ELSE ScanRange(text, mid, hi, half)

\* the brace-matching loop: the offset just after the closing brace, or -1
BraceScan(text, rule_start) ==
    ScanRange(text, rule_start, Len(text),
              [in_string |-> FALSE, in_regex |-> FALSE, escape_next |-> FALSE,
               brace_count |-> 0, found_opening |-> FALSE, end_pos |-> -1]).end_pos

\* the walk back over the blanks before the rule keyword
ActualStart(text, a) ==
    MinOf({b \in 0..a : \A k \in (b + 1)..a : text[k] \in {" ", "\t"}})

\* text[import_start:end_pos] if the closing brace was found
FoundRule(text, import_start, end_pos) ==
    IF end_pos # -1 THEN Slice(text, import_start, end_pos) ELSE None

\* the start of the import lines right before the rule, or of the rule
ImportsBefore(text, actual_start, lines_before) ==
    ImportStart(text, lines_before, Len(lines_before), actual_start)

ManualParsing(text, rule_start) ==
    IF rule_start = -1 THEN None
    ELSE FoundRule(text,
                   ImportsBefore(text, ActualStart(text, rule_start),
                                 SplitLines(Slice(text, 0, ActualStart(text, rule_start)))),
                   BraceScan(text, rule_start))

_extract_rule_manual_parsing(text) == ManualParsing(text, Find(Lower(text), <<"rule", " ">>, 0))

\* every offset of "rule " in the lowered text
RECURSIVE RulePositions(_, _)
RulePositions(text_lower, pos) ==
    LET p == Find(text_lower, <<"rule", " ">>, pos)
    IN  IF p = -1 THEN <<>> ELSE <<p>> \o RulePositions(text_lower, p + 2)

\* the rule of one span, if it is one
ManualRule(manual_rule) ==
    IF Truthy(manual_rule) /\ _is_valid_rule_structure(manual_rule) THEN <<manual_rule>>
    ELSE <<>>

\* the loop over rule_positions, from its i-th element on
RECURSIVE ManualRules(_, _, _)
ManualRules(text, rule_positions, i) ==
    IF i > Len(rule_positions) THEN <<>>
    ELSE LET start_pos == rule_positions[i]
             end_pos == IF i + 1 <= Len(rule_positions) THEN rule_positions[i + 1] ELSE Len(text)
         IN  ManualRule(_extract_rule_manual_parsing(Slice(text, start_pos, end_pos)))
             \o ManualRules(text, rule_positions, i + 1)

RECURSIVE PatternRules(_, _)
PatternRules(text, k) ==
    IF k > Len(YARA_RULE_PATTERNS) THEN <<>>
    ELSE SelectSeq(FindAll(YARA_RULE_PATTERNS[k], text, TRUE), _is_valid_rule_structure)
         \o PatternRules(text, k + 1)

\* the rules of manual parsing, or else those of the patterns
OrPatternRules(text, rules) == IF rules = <<>> THEN PatternRules(text, 1) ELSE rules

_extract_rules_from_text(text) ==
    OrPatternRules(text, IF Contains(Lower(text), <<"rule", " ">>)
                         THEN ManualRules(text, RulePositions(Lower(text), 0), 1)
                         ELSE <<>>)

\* re.sub(r'\s+', ' ', s): every whitespace run becomes one space
CollapseSpace(s) ==
    LET kept == SelectSeq([k \in 1..Len(s) |-> k],
                          LAMBDA k : s[k] \notin Space \/ k = 1 \/ s[k - 1] \notin Space)
    IN  [k \in 1..Len(kept) |-> IF s[kept[k]] \in Space THEN " " ELSE s[kept[k]]]


\* one iteration of the loop over the lines of _normalize_section_order;
\* st.stop is set by the break
SectionStep(line, st) ==
    LET stripped == Strip(line)
        opens == Count(line, "{")
        closes == Count(line, "}")
        brace_count == st.brace_count + opens - closes
        s1 == [st EXCEPT !.brace_count = brace_count]
        section == IF StartsWith(stripped, <<"meta:">>) THEN "meta"
                   ELSE IF StartsWith(stripped, <<"strings:">>) THEN "strings"
                   ELSE IF StartsWith(stripped, <<"condition:">>) THEN "condition"
                   ELSE st.current_section
        s2 == [s1 EXCEPT !.current_section = section]
    IN  CASE st.stop -> st
          [] StartsWith(stripped, <<"rule", " ">>) /\ Contains(stripped, <<"{">>) ->
               [st EXCEPT !.rule_header = Append(@, line), !.brace_count = @ + opens]
          [] st.rule_header = <<>> /\ stripped = <<>> -> st
          [] st.rule_header = <<>> -> [st EXCEPT !.rule_header = Append(@, line)]
          [] brace_count <= 0 /\ closes > 0 ->
               [s1 EXCEPT !.condition_lines = Append(@, line), !.stop = TRUE]
          [] section = "meta" -> [s2 EXCEPT !.meta_lines = Append(@, line)]
          [] section = "strings" -> [s2 EXCEPT !.strings_lines = Append(@, line)]
          [] section = "condition" -> [s2 EXCEPT !.condition_lines = Append(@, line)]
          [] OTHER -> [s1 EXCEPT !.rule_header = Append(@, line)]

\* the loop over lines[lo..hi]
RECURSIVE SectionLoop(_, _, _, _)
SectionLoop(lines, lo, hi, st) ==
    IF lo > hi THEN st
    ELSE IF lo = hi THEN SectionStep(lines[lo], st)
    ELSE LET mid == (lo + hi) \div 2
             half == SectionLoop(lines, lo, mid, st)
         IN  IF half.stop THEN half ELSE SectionLoop(lines, mid + 1, hi, half)

\* (/[^/\n]*[\{\}][^/\n]*/|"[^"\n]*[\{\}][^"\n]*")
BraceInLiteral ==
    Alt(<<Cat(<<Lit("/"), Star(NotIn({"/", "\n"})), In({"{", "}"}), Star(NotIn({"/", "\n"})), Lit("/")>>),
          Cat(<<Lit("\""), Star(NotIn({"\"", "\n"})), In({"{", "}"}), Star(NotIn({"\"", "\n"})), Lit("\"")>>)>>)

\* the loop over all the lines
Sections(lines) ==
    SectionLoop(lines, 1, Len(lines),
                [rule_header |-> <<>>, meta_lines |-> <<>>, strings_lines |-> <<>>,
                 condition_lines |-> <<>>, current_section |-> "none",
                 brace_count |-> 0, stop |-> FALSE])

\* the header, then meta, strings and condition
Reordered(st) ==
    JoinLines(st.rule_header \o st.meta_lines \o st.strings_lines \o st.condition_lines)

_normalize_section_order(rule) ==
    IF rule = <<>> THEN <<>>
    ELSE IF Search(BraceInLiteral, rule, FALSE) THEN rule
    ELSE Reordered(Sections(SplitLines(rule)))

\* the substitutions, innermost first:
\*   re.sub(r'rule\s+(\w+)\s*{', r'rule \1 {', rule)
\*   re.sub(r'^\s*(strings|condition|meta)\s*$', r'\1:', rule, flags=re.MULTILINE)
\*   re.sub(r'^\s*(strings|condition|meta)\s+(?!:)', r'\1:', rule, flags=re.MULTILINE)
\*   re.sub(r'\$(\w+)=', r'$\1 =', rule)
\* (the "common quote issues" substitution rewrites every match to itself)
_fix_common_syntax_issues(rule) ==
    _normalize_section_order(
        Sub(<<Cat(<<>>), In({"$a", "$b"}), Lit("=")>>,
            Template(<<>>, "keep", <<" ", "=">>),
            Sub(<<Cat(<<Bol, Spaces>>), In({"strings", "condition", "meta"}),
                  Cat(<<Spaces1, [t |-> "notnext", c |-> ":"]>>)>>,
                Template(<<>>, "colon", <<>>),
                Sub(<<Cat(<<Bol, Spaces>>), In({"strings", "condition", "meta"}),
                      Cat(<<Spaces, Eol>>)>>,
                    Template(<<>>, "colon", <<>>),
                    Sub(<<Cat(<<Lit("rule"), Spaces1>>), Ident, Cat(<<Spaces, Lit("{")>>)>>,
                        Template(<<"rule", " ">>, "keep", <<" ", "{">>),
                        rule, FALSE),
                    FALSE),
                FALSE),
            FALSE))

\* len(line) - len(line.lstrip())
Indent(line) == Len(line) - Len(LStrip(line))

\* the minimum indentation of the lines after the first that are neither
\* blank nor comments; -1 stands for float('inf')
MinIndent(lines) ==
    LET counted == {i \in 2..Len(lines) :
                      /\ Strip(lines[i]) # <<>>
                      /\ ~StartsWith(Strip(lines[i]), <<"/", "/">>)}
    IN  IF counted = {} THEN -1
        ELSE CHOOSE m \in {Indent(lines[i]) : i \in counted} :
                 \A i \in counted : m <= Indent(lines[i])

\* the lines after the first lose min_indent leading characters
Unindent(rule, lines, min_indent) ==
    IF min_indent > 0
    THEN JoinLines([i \in 1..Len(lines) |->
             IF i = 1 THEN lines[1]
             ELSE IF Strip(lines[i]) # <<>> THEN Slice(lines[i], min_indent, Len(lines[i]))
             ELSE <<>>])
    ELSE rule

FixIndentation(rule) ==
    IF rule = <<>> THEN <<>>
    ELSE Unindent(rule, SplitLines(rule), MinIndent(SplitLines(rule)))

\* after strip(): re.sub(r'^<fence>.*?\n', '', rule, flags=re.MULTILINE), then
\* re.sub(r'\n<fence>$', '', rule), then the indentation and the syntax fixes
_clean_rule(rule) ==
    _fix_common_syntax_issues(
        FixIndentation(
            Sub(Whole(Cat(<<Lit("\n"), Lit(Ticks), [t |-> "end"]>>)),
                Template(<<>>, "drop", <<>>),
                Sub(Whole(Cat(<<Bol, Lit(Ticks), LazyStar(NotIn({"\n"})), Lit("\n")>>)),
                    Template(<<>>, "drop", <<>>), Strip(rule), FALSE),
                FALSE)))

_validate_basic_structure(rule) == _is_valid_rule_structure(rule)

\* rule\s+\w+\s*\{[^}]*\}
RuleBody == Whole(Cat(<<RuleHead, Star(NotIn({"}"})), Lit("}")>>))

\* one iteration of the cleaning and duplicate-removal loop of extract_rules;
\* st holds cleaned_rules, seen_rules and seen_rule_bodies
\* rule_body_match is the list of the matches of the rule body in cleaned
Deduplicate(cleaned, rule_body_match, st) ==
    LET normalized == CollapseSpace(Strip(cleaned))
        has_body == rule_body_match # <<>>
        rule_body == IF has_body THEN CollapseSpace(Strip(rule_body_match[1])) ELSE <<>>
        bodies == IF has_body THEN st.seen_rule_bodies \union {rule_body}
                  ELSE st.seen_rule_bodies
    IN  IF has_body /\ rule_body \in st.seen_rule_bodies /\ ~Contains(cleaned, <<"import">>)
        THEN st
        ELSE IF normalized \notin st.seen_rules
        THEN [st EXCEPT !.cleaned_rules = Append(@, cleaned),
                        !.seen_rules = @ \union {normalized},
                        !.seen_rule_bodies = bodies]
        ELSE [st EXCEPT !.seen_rule_bodies = bodies]

KeepCleaned(cleaned, st) ==
    IF Truthy(cleaned) /\ _validate_basic_structure(cleaned)
    THEN Deduplicate(cleaned, FindAll(RuleBody, cleaned, FALSE), st)
    ELSE st


\* one iteration of the loop over CODE_BLOCK_PATTERNS: the rules of the
\* blocks the pattern finds
RulesOfBlocks(matches) ==
    Flatten([m \in 1..Len(matches) |-> _extract_rules_from_text(matches[m])])

CodeBlockRules(response, pattern) == RulesOfBlocks(FindAll(pattern, response, TRUE))

\* extract_single_rule, given what extract_rules returned
extract_single_rule(rules) == IF rules # <<>> THEN rules[1] ELSE None

(***************************************************************************)
(* Python dicts: functions from keys to values; {} is the empty function   *)
(***************************************************************************)
\* a variant of dict.update: a key that is there keeps its value
Update_keeping_earlier(d, e) ==
    [k \in (DOMAIN d) \union (DOMAIN e) |-> IF k \in DOMAIN d THEN d[k] ELSE e[k]]

\* dict.update
Update(d, e) == [k \in (DOMAIN d) \union (DOMAIN e) |-> IF k \in DOMAIN e THEN e[k] ELSE d[k]]

\* dict.get(k, default)
Get(d, k, default) == IF d # <<>> /\ k \in DOMAIN d THEN d[k] ELSE default

(***************************************************************************)
(* evaluation/yara_validator.py                                            *)
(***************************************************************************)


\* s.encode().hex()
Hex(s) ==
    [i \in 1..Len(s) |->
        CASE s[i] = "evil" -> "6576696c"
          [] s[i] = "bad" -> "626164"
          [] OTHER -> "<hex>"]

\* DoubleBackslashes is s.replace('\\', '\\\\')
_find_expected_strings(rule, expected) ==
    LET DoubleBackslashes(s) ==
            Flatten([i \in 1..Len(s) |-> IF s[i] = "\\" THEN <<"\\", "\\">> ELSE <<s[i]>>])
    IN
    SelectSeq(expected, LAMBDA expected_string :
        \/ Contains(rule, expected_string)
        \/ Contains(rule, <<"'">> \o expected_string \o <<"'">>)
        \/ Contains(rule, Hex(expected_string))
        \/ Contains(rule, DoubleBackslashes(expected_string)))

_find_expected_keywords(rule, expected) ==
    LET rule_lower == Lower(rule)
    IN  SelectSeq(expected, LAMBDA keyword :
            LET keyword_lower == Lower(keyword)
            IN  IF keyword_lower \in {<<"pe">>, <<"elf">>}
                THEN \/ Contains(rule_lower, keyword_lower \o <<".">>)
                     \/ Contains(rule_lower, <<"import", " ", "\"">> \o keyword_lower \o <<"\"">>)
                ELSE Contains(rule_lower, keyword_lower))

\* _validate_structure, had it counted the braces before it looked for the
\* condition
_validate_structure_counting_first(rule) ==
    IF ~Truthy(rule) \/ ~Truthy(Strip(rule)) THEN <<"Empty rule">>
    ELSE IF ~Contains(rule, <<"rule", " ">>)
    THEN <<"Incomplete rule structure - missing 'rule' keyword">>
    ELSE IF ~Contains(rule, <<"{">>)
    THEN <<"Incomplete rule structure - missing opening brace">>
    ELSE IF ~Contains(rule, <<"}">>)
    THEN <<"Incomplete rule structure - missing closing brace">>
    ELSE IF Count(rule, "{") # Count(rule, "}")
    THEN <<"Incomplete rule structure - unbalanced braces">>
    ELSE IF ~Contains(rule, <<"condition:">>)
    THEN <<"Incomplete rule structure - missing condition">>
    ELSE None

\* the diagnostic, or None
_validate_structure(rule) ==
    IF ~Truthy(rule) \/ ~Truthy(Strip(rule)) THEN <<"Empty rule">>
    ELSE IF ~Contains(rule, <<"rule", " ">>)
    THEN <<"Incomplete rule structure - missing 'rule' keyword">>
    ELSE IF ~Contains(rule, <<"{">>)
    THEN <<"Incomplete rule structure - missing opening brace">>
    ELSE IF ~Contains(rule, <<"}">>)
    THEN <<"Incomplete rule structure - missing closing brace">>
    ELSE IF ~Contains(rule, <<"condition:">>)
    THEN <<"Incomplete rule structure - missing condition">>
    ELSE IF Count(rule, "{") # Count(rule, "}")
    THEN <<"Incomplete rule structure - unbalanced braces">>
    ELSE None

\* a call on the validator or the engine, as the log records it
Call(op, by, arg, out) == [op |-> op, by |-> by, arg |-> arg, out |-> out]

\* YaraValidator.evaluate: the dict it returns and the calls it makes;
\* compiled is what yara.compile does with this rule
YaraValidator_evaluate(challenge, rule, compiled) ==
    LET results == [valid_syntax |-> FALSE, expected_strings_found |-> <<>>,
                    expected_keywords_found |-> <<>>, error |-> None]
        structure_error == _validate_structure(rule)
        checked == Call("_validate_structure", "YaraValidator", rule, structure_error)
        compile == Call("yara.compile", "YaraValidator", rule, compiled)
    IN  IF Truthy(structure_error)
        THEN [results |-> [results EXCEPT !.error = structure_error], calls |-> <<checked>>]
        ELSE IF compiled = "syntax_error"
        THEN [results |-> [results EXCEPT !.error = <<"YARA syntax error: ", "e">>],
              calls |-> <<checked, compile>>]
        ELSE IF compiled = "error"
        THEN [results |-> [results EXCEPT !.error = <<"YARA compilation error: ", "e">>],
              calls |-> <<checked, compile>>]
        ELSE [results |->
                [results EXCEPT
                   !.valid_syntax = TRUE,
                   !.expected_strings_found =
                       IF Truthy(challenge.expected_strings)
                       THEN _find_expected_strings(rule, challenge.expected_strings) ELSE @,
                   !.expected_keywords_found =
                       IF Truthy(challenge.expected_keywords)
                       THEN _find_expected_keywords(rule, challenge.expected_keywords) ELSE @],
              calls |-> <<checked, compile>>]

(***************************************************************************)
(* evaluation/file_matcher.py                                              *)
(***************************************************************************)
\* what happens to one test file: its content decodes and the rule matches
\* ("match") or not ("no_match"), the content does not decode
\* ("decode_error"), or the match raises ("match_error")

\* the last of the indices in S, or 0
Last(S) == IF S = {} THEN 0 ELSE MaxOf(S)

\* FileMatcher.evaluate, had a failure on one file ended the loop
FileMatcher_aborting_batch(challenge, rule, compiled, outcomes) ==
    LET test_files == challenge.test_files
        failing == {i \in 1..Len(test_files) : outcomes[i] \in {"decode_error", "match_error"}}
        tried == IF failing = {} THEN Len(test_files) ELSE MinOf(failing)
        compile == Call("yara.compile", "FileMatcher", rule, compiled)
    IN  IF ~Truthy(test_files)
        THEN [results |-> [execution_results |-> <<>>, error |-> None], calls |-> <<>>]
        ELSE IF compiled # "ok"
        THEN [results |-> [execution_results |-> <<>>, error |-> <<"Execution error: ", "e">>],
              calls |-> <<compile>>]
        ELSE [results |->
                [execution_results |-> [n \in {test_files[i].name : i \in 1..tried} |->
                                           \E i \in 1..tried : /\ test_files[i].name = n
                                                               /\ outcomes[i] = "match"],
                 error |-> IF failing = {} THEN None
                           ELSE <<"Failed to decode ", test_files[tried].name, ": ", "e">>],
              calls |-> <<compile>> \o
                        [i \in 1..tried |->
                            Call("match", "FileMatcher", test_files[i].name, outcomes[i])]]

\* FileMatcher.evaluate, had it kept the diagnostic of the first file that failed
FileMatcher_first_diagnostic(challenge, rule, compiled, outcomes) ==
    LET test_files == challenge.test_files
        failing == {i \in 1..Len(test_files) : outcomes[i] \in {"decode_error", "match_error"}}
        compile == Call("yara.compile", "FileMatcher", rule, compiled)
    IN  IF ~Truthy(test_files)
        THEN [results |-> [execution_results |-> <<>>, error |-> None], calls |-> <<>>]
        ELSE IF compiled # "ok"
        THEN [results |-> [execution_results |-> <<>>, error |-> <<"Execution error: ", "e">>],
              calls |-> <<compile>>]
        ELSE [results |->
                [execution_results |-> [n \in {test_files[i].name : i \in 1..Len(test_files)} |->
                                           \E i \in 1..Len(test_files) :
                                               /\ test_files[i].name = n
                                               /\ outcomes[i] = "match"],
                 error |-> IF failing = {} THEN None
                           ELSE IF outcomes[MinOf(failing)] = "decode_error"
                           THEN <<"Failed to decode ", test_files[MinOf(failing)].name, ": ", "e">>
                           ELSE <<"Failed to match ", test_files[MinOf(failing)].name, ": ", "e">>],
              calls |-> <<compile>> \o
                        [i \in 1..Len(test_files) |->
                            Call("match", "FileMatcher", test_files[i].name, outcomes[i])]]

\* FileMatcher.evaluate: the dict it returns and the calls it makes;
\* outcomes[i] is what happens to test_files[i]
FileMatcher_evaluate(challenge, rule, compiled, outcomes) ==
    LET test_files == challenge.test_files
        names == {test_files[i].name : i \in 1..Len(test_files)}
        compile == Call("yara.compile", "FileMatcher", rule, compiled)
        \* a later file of the same name overwrites the entry
        execution_results ==
            [n \in names |->
                outcomes[Last({i \in 1..Len(test_files) : test_files[i].name = n})] = "match"]
        failed == Last({i \in 1..Len(test_files) : outcomes[i] \in {"decode_error", "match_error"}})
        error == IF failed = 0 THEN None
                 ELSE IF outcomes[failed] = "decode_error"
                 THEN <<"Failed to decode ", test_files[failed].name, ": ", "e">>
                 ELSE <<"Failed to match ", test_files[failed].name, ": ", "e">>
    IN  IF ~Truthy(test_files)
        THEN [results |-> [execution_results |-> <<>>, error |-> None], calls |-> <<>>]
        ELSE IF compiled = "syntax_error"
        THEN [results |-> [execution_results |-> <<>>, error |-> <<"YARA syntax error: ", "e">>],
              calls |-> <<compile>>]
        ELSE IF compiled = "error"
        THEN [results |-> [execution_results |-> <<>>, error |-> <<"Execution error: ", "e">>],
              calls |-> <<compile>>]
        ELSE [results |-> [execution_results |-> execution_results, error |-> error],
              calls |-> <<compile>> \o
                        [i \in 1..Len(test_files) |->
                            Call("match", "FileMatcher", test_files[i].name, outcomes[i])]]

(***************************************************************************)
(* utils/text_utils.py; a string is the sequence of its characters here    *)
(***************************************************************************)
\* clean_text_output: drop the fence lines, the surrounding backticks (the
\* character written "<tick>") and
\* the blank lines, strip every line
clean_text_output(text) ==
    LET fence == <<"<tick>", "<tick>", "<tick>">>
        clean_lines == SelectSeq(SplitLines(text),
                                 LAMBDA line : ~(/\ StartsWith(Strip(line), fence)
                                                 /\ Len(Strip(line)) <= 10))
        stripped == Strip(IF Contains(text, fence) THEN JoinLines(clean_lines) ELSE text)
        inner == IF StartsWith(stripped, <<"<tick>">>) /\ stripped[Len(stripped)] = "<tick>"
                 THEN Slice(stripped, 1, Len(stripped) - 1)
                 ELSE stripped
        lines == SplitLines(inner)
    IN  JoinLines(SelectSeq([k \in 1..Len(lines) |-> Strip(lines[k])],
                            LAMBDA line : line # <<>>))

\* the character class [A-Za-z0-9+/=] of fix_base64_padding
Base64Alphabet ==
    {"A", "B", "C", "D", "E", "F", "G", "H", "I", "J", "K", "L", "M",
     "N", "O", "P", "Q", "R", "S", "T", "U", "V", "W", "X", "Y", "Z",
     "a", "b", "c", "d", "e", "f", "g", "h", "i", "j", "k", "l", "m",
     "n", "o", "p", "q", "r", "s", "t", "u", "v", "w", "x", "y", "z",
     "0", "1", "2", "3", "4", "5", "6", "7", "8", "9", "+", "/", "="}

\* fix_base64_padding: clean, drop the quotes and every character outside
\* the alphabet, pad with = to a multiple of 4
fix_base64_padding(b64_string) ==
    LET cleaned == Strip(clean_text_output(b64_string))
        unquoted == SelectSeq(cleaned, LAMBDA c : c \notin {"\n", "\r", "\"", "'"})
        kept == SelectSeq(unquoted, LAMBDA c : c \in Base64Alphabet)
        missing_padding == Len(kept) % 4
    IN  IF missing_padding # 0
        THEN kept \o [k \in 1..(4 - missing_padding) |-> "="]
        ELSE kept

\* base64.b64decode(s) as FileMatcher calls it (not strict): "ok", or the
\* binascii.Error it raises. The decoder walks the characters: an = ends
\* the data once it completes a quad that holds two or three digits, a digit
\* moves on in its quad, and the data must not end inside a quad.
b64decode(s) ==
    LET RECURSIVE a2b_base64(_, _, _)
        a2b_base64(i, quad_pos, pads) ==
            IF i > Len(s)
            THEN IF quad_pos = 0 THEN "ok"
                 ELSE IF quad_pos = 1 THEN "Invalid base64-encoded string"
                 ELSE "Incorrect padding"
            ELSE IF s[i] = "="
            THEN IF quad_pos >= 2 /\ quad_pos + pads + 1 >= 4
                 THEN "ok"
                 ELSE a2b_base64(i + 1, quad_pos, IF quad_pos >= 2 THEN pads + 1 ELSE pads)
            ELSE IF s[i] \notin Base64Alphabet
            THEN a2b_base64(i + 1, quad_pos, pads)
            ELSE a2b_base64(i + 1, (quad_pos + 1) % 4, 0)
    IN  a2b_base64(1, 0, 0)

(***************************************************************************)
(* evaluation/llm_judge.py                                                 *)
(***************************************************************************)
required_keys ==
    <<"correctness", "completeness", "efficiency", "best_practices", "false_positive_risk">>

\* the judge's weights, in hundredths
JudgeWeight(criterion) ==
    CASE criterion = "correctness" -> 35
      [] criterion = "completeness" -> 25
      [] criterion = "efficiency" -> 15
      [] criterion = "best_practices" -> 15
      [] criterion = "false_positive_risk" -> 10

\* a criterion of the judge's JSON object is absent ("absent"), no object
\* ("not_dict"), an object without a score ("no_score"), with a score that is
\* no number ("bad_score"), or an object with a numeric score
Scored(n) == [t |-> "score", score |-> n]

\* _parse_evaluation_response on a JSON object: the defaults it fills in
FillDefaults(data) ==
    [key \in DOMAIN data |->
        IF data[key].t \in {"absent", "not_dict", "no_score"} THEN Scored(5) ELSE data[key]]

\* _parse_evaluation_response on a text that is no JSON
Fallback == [key \in {required_keys[i] : i \in 1..Len(required_keys)} |-> Scored(5)]

RECURSIVE WeightedSum(_, _)
WeightedSum(evaluation_data, k) ==
    IF k > Len(required_keys) THEN RZero
    ELSE RAdd(RMul(RDiv(Rat(evaluation_data[required_keys[k]].score, 1), Rat(10, 1)),
                   Hundredths(JudgeWeight(required_keys[k]))),
              WeightedSum(evaluation_data, k + 1))

RECURSIVE TotalWeight(_)
TotalWeight(k) ==
    IF k > Len(required_keys) THEN RZero
    ELSE RAdd(Hundredths(JudgeWeight(required_keys[k])), TotalWeight(k + 1))

\* every criterion is an object after parsing, so every weight counts
_calculate_overall_score(evaluation_data) ==
    IF RLe(TotalWeight(1), RZero) THEN Rat(1, 2)
    ELSE RDiv(WeightedSum(evaluation_data, 1), TotalWeight(1))

\* a variant of LLMJudge.evaluate: an exception gives the neutral default too
LLMJudge_neutral_on_error(llm_client, reply) ==
    IF Truthy(llm_client) /\ reply.kind = "json"
       /\ \A key \in DOMAIN reply.data : reply.data[key].t # "bad_score"
    THEN [llm_judge_score |-> _calculate_overall_score(FillDefaults(reply.data)),
          llm_judge_feedback |-> <<"feedback">>,
          llm_judge_details |-> FillDefaults(reply.data)]
    ELSE [llm_judge_score |-> Rat(1, 2),
          llm_judge_feedback |-> <<"feedback">>,
          llm_judge_details |-> Fallback]

\* LLMJudge.evaluate; reply is what the judge's client does when asked
LLMJudge_evaluate(llm_client, reply) ==
    LET failed == [llm_judge_score |-> RZero,
                   llm_judge_feedback |-> <<"LLM judge error: ", "e">>,
                   llm_judge_details |-> [error |-> "e"]]
        evaluation_data == IF reply.kind = "not_json" THEN Fallback ELSE FillDefaults(reply.data)
    IN  IF ~Truthy(llm_client)
        THEN [llm_judge_score |-> RZero,
              llm_judge_feedback |-> <<"LLM judge not configured">>,
              llm_judge_details |-> <<>>]
        ELSE IF reply.kind \in {"raises", "json_not_object"} THEN failed
        ELSE IF \E key \in DOMAIN evaluation_data : evaluation_data[key].t = "bad_score"
        THEN failed
        ELSE [llm_judge_score |-> _calculate_overall_score(evaluation_data),
              llm_judge_feedback |-> <<"feedback">>,
              llm_judge_details |-> evaluation_data]

(***************************************************************************)
(* benchmark.py                                                            *)
(***************************************************************************)
\* a variant of the evaluator order: the execution evaluator first
evaluators_matcher_first(judge_model) ==
    <<"FileMatcher", "YaraValidator">> \o (IF judge_model THEN <<"LLMJudge">> ELSE <<>>)

\* Benchmark.__init__: self.evaluators
evaluators(judge_model) ==
    <<"YaraValidator", "FileMatcher">> \o (IF judge_model THEN <<"LLMJudge">> ELSE <<>>)

syntax_score(eval_results) ==
    IF Get(eval_results, "valid_syntax", FALSE) THEN ROne ELSE RZero

\* a variant of string_score: nothing expected scores nothing
string_score_zero_default(challenge, eval_results) ==
    LET expected_strings == Len(challenge.expected_strings)
        found_strings == Len(Get(eval_results, "expected_strings_found", <<>>))
    IN  IF expected_strings > 0 THEN Rat(found_strings, expected_strings) ELSE RZero

string_score(challenge, eval_results) ==
    LET expected_strings == Len(challenge.expected_strings)
        found_strings == Len(Get(eval_results, "expected_strings_found", <<>>))
    IN  IF expected_strings > 0 THEN Rat(found_strings, expected_strings) ELSE ROne

keyword_score(challenge, eval_results) ==
    LET expected_keywords == Len(challenge.expected_keywords)
        found_keywords == Len(Get(eval_results, "expected_keywords_found", <<>>))
    IN  IF expected_keywords > 0 THEN Rat(found_keywords, expected_keywords) ELSE ROne

\* a variant of correct_matches: the files the rule matched, expected or not
matched_files(challenge, execution_results) ==
    Cardinality({i \in 1..Len(challenge.test_files) :
                    Get(execution_results, challenge.test_files[i].name, FALSE)})

\* the number of test files whose recorded outcome is the expected one
correct_matches(challenge, execution_results) ==
    Cardinality({i \in 1..Len(challenge.test_files) :
                    Get(execution_results, challenge.test_files[i].name, FALSE)
                        = challenge.test_files[i].should_match})

match_score(challenge, eval_results) ==
    LET execution_results == Get(eval_results, "execution_results", <<>>)
    IN  IF Truthy(execution_results)
        THEN Rat(correct_matches(challenge, execution_results), Len(challenge.test_files))
        ELSE RZero

\* a variant of final_score: the judge's branch is selected by truthiness, so
\* that a judge score of 0.0 counts as absent
final_score_if_truthy(syntax, strings, keywords, matches, llm_judge_score) ==
    IF llm_judge_score # None /\ llm_judge_score # RZero
    THEN RAdd(RAdd(RAdd(RAdd(RMul(Hundredths(20), syntax),
                             RMul(Hundredths(15), strings)),
                        RMul(Hundredths(10), keywords)),
                   RMul(Hundredths(35), matches)),
              RMul(Hundredths(20), llm_judge_score))
    ELSE RAdd(RAdd(RAdd(RMul(Hundredths(30), syntax),
                        RMul(Hundredths(20), strings)),
                   RMul(Hundredths(10), keywords)),
              RMul(Hundredths(40), matches))

\* the weighted sum of the branch that llm_judge_score selects
final_score(syntax, strings, keywords, matches, llm_judge_score) ==
    IF llm_judge_score # None
    THEN RAdd(RAdd(RAdd(RAdd(RMul(Hundredths(20), syntax),
                             RMul(Hundredths(15), strings)),
                        RMul(Hundredths(10), keywords)),
                   RMul(Hundredths(35), matches)),
              RMul(Hundredths(20), llm_judge_score))
    ELSE RAdd(RAdd(RAdd(RMul(Hundredths(30), syntax),
                        RMul(Hundredths(20), strings)),
                   RMul(Hundredths(10), keywords)),
              RMul(Hundredths(40), matches))

_calculate_score(challenge, rule, eval_results) ==
    final_score(syntax_score(eval_results),
                string_score(challenge, eval_results),
                keyword_score(challenge, eval_results),
                match_score(challenge, eval_results),
                Get(eval_results, "llm_judge_score", None))

\* a variant of RuleResult: the error is not passed on
RuleResultWithoutError(challenge, generated_response, valid_syntax, score, error) ==
    [challenge_id |-> challenge.id, generated_rule |-> None, generated_response |-> generated_response,
     valid_syntax |-> valid_syntax, execution_results |-> <<>>,
     expected_strings_found |-> <<>>, expected_keywords_found |-> <<>>,
     score |-> score, error |-> None,
     llm_judge_score |-> None, llm_judge_feedback |-> None, llm_judge_details |-> None]

\* the RuleResult of a challenge without an evaluated rule (the defaults of
\* models/result.py)
RuleResult(challenge, generated_response, valid_syntax, score, error) ==
    [challenge_id |-> challenge.id, generated_rule |-> None, generated_response |-> generated_response,
     valid_syntax |-> valid_syntax, execution_results |-> <<>>,
     expected_strings_found |-> <<>>, expected_keywords_found |-> <<>>,
     score |-> score, error |-> error,
     llm_judge_score |-> None, llm_judge_feedback |-> None, llm_judge_details |-> None]

\* the RuleResult of an evaluated rule
EvaluatedResult(challenge, rule, response, eval_results, score) ==
    [challenge_id |-> challenge.id, generated_rule |-> rule, generated_response |-> response,
     valid_syntax |-> Get(eval_results, "valid_syntax", FALSE),
     execution_results |-> Get(eval_results, "execution_results", <<>>),
     expected_strings_found |-> Get(eval_results, "expected_strings_found", <<>>),
     expected_keywords_found |-> Get(eval_results, "expected_keywords_found", <<>>),
     score |-> score, error |-> Get(eval_results, "error", None),
     llm_judge_score |-> Get(eval_results, "llm_judge_score", None),
     llm_judge_feedback |-> Get(eval_results, "llm_judge_feedback", None),
     llm_judge_details |-> Get(eval_results, "llm_judge_details", None)]

(***************************************************************************)
(* The inputs                                                              *)
(***************************************************************************)
MaxFiles == 2
MaxSegments == 4


\* the lists of at most MaxFiles test files, with distinct names
Challenges ==
    LET TestFiles ==
            UNION {{[i \in 1..n |-> [name |-> <<"a.bin", "b.bin", "c.bin", "d.bin">>[i],
                                      should_match |-> m[i]]] :
                        m \in [1..n -> BOOLEAN]} : n \in 0..MaxFiles}
    IN
    [id : {"c1"},
     actionable : BOOLEAN,
     expected_strings : {<<>>, <<<<"evil">>>>, <<<<"evil">>, <<"bad">>>>},
     expected_keywords : {<<>>, <<<<"filesize">>, <<"PE">>>>},
     test_files : TestFiles]

PlainRule == <<"rule", " ", "R", " ", "{", " ", "condition:", " ", "true", " ", "}">>
Abstention == <<"Not", " ", "Actionable">>
Prose == <<"Here", " ", "is", " ", "a", " ", "yara">>
FenceOpen == <<Ticks, "yara", "\n">>
FenceClose == <<"\n", Ticks>>

\* the responses of the evaluated model: empty, prose, an abstention with a
\* rule, a rule, a fenced rule with an import, a rule with a brace inside a
\* string literal (its counts of { and } differ), a rule in capitals
Responses ==
    {<<>>, Prose, Abstention \o <<"\n">> \o PlainRule,
     <<"rule", " ", "R", " ", "{", " ", "strings:", " ", "$a", " ", "=", " ",
       "\"", "evil", "\"", " ", "condition:", " ", "$a", " ", "}">>,
     FenceOpen
       \o <<"import", " ", "\"", "pe", "\"", "\n",
            "rule", " ", "S", " ", "{", " ", "condition:", " ", "filesize", " ", "}">>
       \o FenceClose,
     <<"rule", " ", "R", " ", "{", " ", "strings:", " ", "$a", " ", "=", " ",
       "\"", "{", "\"", " ", "condition:", " ", "$a", " ", "}">>,
     <<"RULE", " ", "R", " ", "{", " ", "condition:", " ", "true", " ", "}">>}

\* the pieces the extractor's inputs are made of
Fragments ==
    <<PlainRule, Abstention, <<"cannot", " ", "create">>, <<"Here", " ", "is", " ", "the", " ">>,
      FenceOpen, FenceClose>>

\* the concatenations of at most n fragments
RECURSIVE TextsUpTo(_)
TextsUpTo(n) ==
    IF n = 0 THEN {<<>>}
    ELSE LET shorter == TextsUpTo(n - 1)
         IN  shorter \union {t \o Fragments[k] : t \in shorter, k \in 1..Len(Fragments)}


Texts == TextsUpTo(MaxSegments)

MaxBlocks == 2
MaxLiterals == 2

\* the responses made of at most MaxBlocks blocks, each a rule on lines of
\* its own or in a fenced block: a plain rule; two rules that differ only
\* after their hex string; a rule whose name ends in "Rule", after one and
\* after two import lines; a rule with its opening brace on a line of its own;
\* the response with a fenced rule, a rule on a line of its own and a fenced
\* sample of output; and a rule in capitals with a hex string, on five lines
Documents ==
    LET HexRule(condition) ==
            <<"rule", " ", "R", " ", "{", " ", "strings:", " ", "$a", " ", "=", " ",
              "{", " ", "6576696c", " ", "}", " ", "condition:", " ">>
            \o condition \o <<" ", "}">>
        Named == <<"rule", " ", "PE", "Rule", " ", "{", " ", "condition:", " ", "true", " ", "}">>
        Below == <<"rule", " ", "R", "\n", "{", "\n", " ", " ",
                   "condition:", " ", "true", " ", "}">>
        Lines(r) == r \o <<"\n">>
        Fenced(r) == FenceOpen \o r \o FenceClose \o <<"\n">>
        Blocks == <<Lines(PlainRule), Fenced(PlainRule),
                    <<Ticks, "\n">> \o PlainRule \o FenceClose \o <<"\n">>,
                    Lines(HexRule(<<"$a">>)), Fenced(HexRule(<<"$a">>)),
                    Lines(HexRule(<<"not", " ", "$a">>)), Fenced(HexRule(<<"not", " ", "$a">>)),
                    Fenced(<<"import", " ", "\"", "pe", "\"", "\n">> \o Named),
                    Fenced(<<"import", " ", "\"", "pe", "\"", "\n",
                             "import", " ", "\"", "math", "\"", "\n">> \o Named),
                    Lines(Below)>>
        Sample == <<Ticks, "\n", "output", "\n", Ticks, "\n">>
    IN  UNION {{Flatten([k \in 1..n |-> Blocks[f[k]]]) : f \in [1..n -> 1..Len(Blocks)]} :
                 n \in 0..MaxBlocks}
          \union {Fenced(PlainRule) \o Lines(Named) \o Sample,
                  <<"RULE", " ", "R", " ", "{", "\n",
                    "strings:", "\n",
                    "$a", " ", "=", " ", "{", " ", "6576696c", " ", "}", "\n",
                    "condition:", " ", "$a", "\n",
                    "}">>}

\* the texts that begin at a rule keyword and hold at most MaxLiterals of: a
\* string with a brace, a string with an escaped quote and a brace, two
\* regexes with a brace, a hex string, a closing brace, a lone quote, a
\* string with an assignment and a brace; with or without the closing brace
\* of the rule; and those that hold at most one of them, with the condition
\* on a line before the strings
ScanTexts ==
    LET Items == <<<<"\"", "}", "\"", " ">>,
                   <<"\"", "\\", "\"", "}", "\"", " ">>,
                   <<"/", "{", "/", " ">>,
                   <<"/", "\\", "/", "}", "/", " ">>,
                   <<"{", " ", "6576696c", " ", "}", " ">>,
                   <<"}", " ">>,
                   <<"\"", " ">>,
                   <<"\"", "$b", "=", "{", "\"", " ">>>>
        Ending == {<<"condition:", " ", "true", " ", "}">>, <<"condition:", " ", "true">>}
        Swapped == <<"\n", "condition:", " ", "$a", "\n", "strings:", " ", "$a", " ", "=", " ",
                     "\"", "evil", "\"", "\n", "}">>
        Opening == <<"rule", " ", "R", " ", "{", " ">>
    IN  UNION {{Opening \o Flatten([k \in 1..n |-> Items[f[k]]]) \o ending :
                    f \in [1..n -> 1..Len(Items)], ending \in Ending} :
                 n \in 0..MaxLiterals}
          \union {Opening \o Swapped}
          \union {Opening \o Items[k] \o Swapped : k \in 1..Len(Items)}

\* the judge's replies
JudgeReplies ==
    LET JudgeData(s) == [key \in {required_keys[i] : i \in 1..Len(required_keys)} |-> s]
    IN
    {[kind |-> "raises", data |-> <<>>], [kind |-> "not_json", data |-> <<>>],
     [kind |-> "json_not_object", data |-> <<>>]}
    \union {[kind |-> "json", data |-> JudgeData(Scored(n))] : n \in {-5, 0, 10, 20}}
    \union {[kind |-> "json", data |-> JudgeData(e)] : e \in {[t |-> "absent", score |-> 0],
                      [t |-> "bad_score", score |-> 0]}}
    \union {[kind |-> "json",
             data |-> [JudgeData(Scored(10))
                          EXCEPT !["completeness"] = [t |-> "no_score", score |-> 0],
                                 !["efficiency"] = [t |-> "not_dict", score |-> 0],
                                 !["false_positive_risk"] = Scored(0)]]}

(***************************************************************************)
(* The evaluation of one challenge: Benchmark._evaluate_challenge          *)
(***************************************************************************)
VARIABLES
    challenges,     \* the challenges of the run, in order
    model_results,  \* the RuleResults of the run so far
    challenge,      \* the Challenge being evaluated
    judge_model,    \* config.judge_model is set
    llm_client,     \* the client of the LLMJudge, or None
    pc,             \* where the evaluation of the challenge stands
    response,       \* what client.generate_rule returned
    extractor,      \* the locals of YaraExtractor.extract_rules
    rule,           \* what extract_single_rule returned
    eval_results,   \* the merged results of the evaluators
    evaluator,      \* the index in self.evaluators of the next evaluator
    engine,         \* what yara.compile does with the rule
    log,            \* the validator and engine calls of the evaluators, in order
    exception,      \* the text of the exception the except branch caught, or None
    result          \* the RuleResult

vars == <<challenges, model_results, challenge, judge_model, llm_client, pc, response,
          extractor, rule, eval_results, evaluator, engine, log, exception, result>>

NoLocals ==
    [rules |-> <<>>, pattern |-> 0, i |-> 0, cleaned_rules |-> <<>>,
     seen_rules |-> {}, seen_rule_bodies |-> {}]

Start ==
    /\ pc = "generate"
    /\ response = None
    /\ extractor = NoLocals
    /\ rule = None
    /\ eval_results = <<>>
    /\ evaluator = 0
    /\ engine = "unknown"
    /\ log = <<>>
    /\ exception = None
    /\ result = None

\* a run of one challenge
Init ==
    /\ challenge \in Challenges
    /\ challenges = <<challenge>>
    /\ model_results = <<>>
    /\ judge_model \in BOOLEAN
    /\ llm_client = IF judge_model THEN <<"LLMClient">> ELSE None
    /\ Start

\* client.generate_rule returns r
GenerateRule(r) ==
    /\ pc = "generate"
    /\ response' = r
    /\ pc' = "extract_rules"
    /\ UNCHANGED <<challenges, model_results, llm_client, exception>>
    /\ UNCHANGED <<challenge, judge_model, extractor, rule, eval_results, evaluator,
                   engine, log, result>>

\* client.generate_rule raises after its retries: the except branch
GenerateRuleRaises ==
    /\ pc = "generate"
    /\ exception' = <<"Failed to generate rule after retries: ", "e">>
    /\ result' = RuleResult(challenge, <<>>, FALSE, RZero, exception')
    /\ pc' = "done"
    /\ UNCHANGED <<challenges, model_results, llm_client>>
    /\ UNCHANGED <<challenge, judge_model, response, extractor, rule, eval_results,
                   evaluator, engine, log>>

\* extraction, an evaluator or the scoring raises: the except branch
Raises ==
    /\ pc \in {"extract_rules", "code_blocks", "direct", "clean", "evaluate"}
    /\ exception' = <<"e">>
    /\ result' = RuleResult(challenge, <<>>, FALSE, RZero, exception')
    /\ pc' = "done"
    /\ UNCHANGED <<challenges, model_results, llm_client>>
    /\ UNCHANGED <<challenge, judge_model, response, extractor, rule, eval_results,
                   evaluator, engine, log>>

\* extract_rules up to its loops: the empty response and the abstention
ExtractRules ==
    /\ pc = "extract_rules"
    /\ IF ~Truthy(response) \/ _indicates_no_rule(response)
       THEN /\ pc' = "extracted"
            /\ UNCHANGED extractor
       ELSE /\ pc' = "code_blocks"
            /\ extractor' = [extractor EXCEPT !.pattern = 1]
    /\ UNCHANGED <<challenges, model_results, llm_client, exception>>
    /\ UNCHANGED <<challenge, judge_model, response, rule, eval_results, evaluator,
                   engine, log, result>>

\* one iteration of the loop over CODE_BLOCK_PATTERNS
CodeBlocks ==
    /\ pc = "code_blocks"
    /\ extractor' =
         [extractor EXCEPT
            !.rules = @ \o CodeBlockRules(response, CODE_BLOCK_PATTERNS[extractor.pattern]),
            !.pattern = @ + 1]
    /\ pc' = IF extractor.pattern < Len(CODE_BLOCK_PATTERNS) THEN "code_blocks"
             ELSE IF extractor'.rules = <<>> THEN "direct"
             ELSE "clean"
    /\ UNCHANGED <<challenges, model_results, llm_client, exception>>
    /\ UNCHANGED <<challenge, judge_model, response, rule, eval_results, evaluator,
                   engine, log, result>>

\* no rule in the code blocks: the whole response
DirectExtraction ==
    /\ pc = "direct"
    /\ extractor' = [extractor EXCEPT !.rules = _extract_rules_from_text(response)]
    /\ pc' = "clean"
    /\ UNCHANGED <<challenges, model_results, llm_client, exception>>
    /\ UNCHANGED <<challenge, judge_model, response, rule, eval_results, evaluator,
                   engine, log, result>>

\* one iteration of the cleaning loop
CleanRule ==
    /\ pc = "clean"
    /\ extractor.i < Len(extractor.rules)
    /\ extractor' = [KeepCleaned(_clean_rule(extractor.rules[extractor.i + 1]), extractor)
                        EXCEPT !.i = extractor.i + 1]
    /\ UNCHANGED <<challenges, model_results, llm_client, exception>>
    /\ UNCHANGED <<challenge, judge_model, pc, response, rule, eval_results, evaluator,
                   engine, log, result>>

\* return cleaned_rules
ReturnRules ==
    /\ pc = "clean"
    /\ extractor.i >= Len(extractor.rules)
    /\ pc' = "extracted"
    /\ UNCHANGED <<challenges, model_results, llm_client, exception>>
    /\ UNCHANGED <<challenge, judge_model, response, extractor, rule, eval_results,
                   evaluator, engine, log, result>>

\* not actionable and no rule: the correct abstention
CorrectAbstention ==
    /\ pc = "extracted"
    /\ ~challenge.actionable
    /\ ~Truthy(extract_single_rule(extractor.cleaned_rules))
    /\ result' = RuleResult(challenge, response, TRUE, ROne, None)
    /\ pc' = "done"
    /\ UNCHANGED <<challenges, model_results, llm_client, exception>>
    /\ UNCHANGED <<challenge, judge_model, response, extractor, rule, eval_results,
                   evaluator, engine, log>>

\* actionable and no rule: the failure
NoRuleExtracted ==
    /\ pc = "extracted"
    /\ challenge.actionable
    /\ ~Truthy(extract_single_rule(extractor.cleaned_rules))
    /\ result' = RuleResult(challenge, response, FALSE, RZero,
                            <<"No valid YARA rule extracted">>)
    /\ pc' = "done"
    /\ UNCHANGED <<challenges, model_results, llm_client, exception>>
    /\ UNCHANGED <<challenge, judge_model, response, extractor, rule, eval_results,
                   evaluator, engine, log>>

\* a rule: eval_results = {} and the loop over the evaluators begins
EvaluateRule ==
    /\ pc = "extracted"
    /\ Truthy(extract_single_rule(extractor.cleaned_rules))
    /\ rule' = extract_single_rule(extractor.cleaned_rules)
    /\ eval_results' = <<>>
    /\ evaluator' = 1
    /\ pc' = "evaluate"
    /\ UNCHANGED <<challenges, model_results, llm_client, exception>>
    /\ UNCHANGED <<challenge, judge_model, response, extractor, engine, log, result>>

\* the next evaluator of the loop is the one named
NextEvaluator(name) ==
    /\ pc = "evaluate"
    /\ evaluator <= Len(evaluators(judge_model))
    /\ evaluators(judge_model)[evaluator] = name

\* what yara.compile does with a rule source; the engine compiles the same
\* source the same way every time
Compiles == IF engine = "unknown" THEN {"ok", "syntax_error", "error"} ELSE {engine}

\* the calls include a compile
HasCompile(calls) == \E k \in 1..Len(calls) : calls[k].op = "yara.compile"

RunYaraValidator ==
    /\ NextEvaluator("YaraValidator")
    /\ \E compiled \in Compiles :
         LET run == YaraValidator_evaluate(challenge, rule, compiled)
         IN  /\ eval_results' = Update(eval_results, run.results)
             /\ log' = log \o run.calls
             /\ engine' = IF HasCompile(run.calls) THEN compiled ELSE engine
    /\ evaluator' = evaluator + 1
    /\ UNCHANGED <<challenges, model_results, llm_client, exception>>
    /\ UNCHANGED <<challenge, judge_model, pc, response, extractor, rule, result>>

RunFileMatcher ==
    /\ NextEvaluator("FileMatcher")
    /\ \E compiled \in Compiles :
       \E outcomes \in [1..Len(challenge.test_files) ->
                            {"match", "no_match", "decode_error", "match_error"}] :
         LET run == FileMatcher_evaluate(challenge, rule, compiled, outcomes)
         IN  /\ eval_results' = Update(eval_results, run.results)
             /\ log' = log \o run.calls
             /\ engine' = IF HasCompile(run.calls) THEN compiled ELSE engine
    /\ evaluator' = evaluator + 1
    /\ UNCHANGED <<challenges, model_results, llm_client, exception>>
    /\ UNCHANGED <<challenge, judge_model, pc, response, extractor, rule, result>>

RunLLMJudge ==
    /\ NextEvaluator("LLMJudge")
    /\ \E reply \in JudgeReplies :
         /\ eval_results' = Update(eval_results, LLMJudge_evaluate(llm_client, reply))
         /\ log' = IF Truthy(llm_client)
                   THEN Append(log, Call("_get_llm_evaluation", "LLMJudge", rule, reply))
                   ELSE log
    /\ evaluator' = evaluator + 1
    /\ UNCHANGED <<challenges, model_results, llm_client, exception>>
    /\ UNCHANGED <<challenge, judge_model, pc, response, extractor, rule, engine, result>>

\* the score and the RuleResult
ReturnResult ==
    /\ pc = "evaluate"
    /\ evaluator > Len(evaluators(judge_model))
    /\ result' = EvaluatedResult(challenge, rule, response, eval_results,
                                 _calculate_score(challenge, rule, eval_results))
    /\ pc' = "done"
    /\ UNCHANGED <<challenges, model_results, llm_client, exception>>
    /\ UNCHANGED <<challenge, judge_model, response, extractor, rule, eval_results,
                   evaluator, engine, log>>

Spec ==
    Init /\ [][\/ \E r \in Responses : GenerateRule(r)
               \/ GenerateRuleRaises
               \/ ExtractRules
               \/ CodeBlocks
               \/ DirectExtraction
               \/ CleanRule
               \/ ReturnRules
               \/ CorrectAbstention
               \/ NoRuleExtracted
               \/ EvaluateRule
               \/ RunYaraValidator
               \/ RunFileMatcher
               \/ RunLLMJudge
               \/ ReturnResult]_vars

(***************************************************************************)
(* YaraExtractor.extract_rules alone, on the texts made of the fragments   *)
(***************************************************************************)
InitExtract ==
    /\ challenge = [id |-> "c1", actionable |-> TRUE, expected_strings |-> <<>>,
                    expected_keywords |-> <<>>, test_files |-> <<>>]
    /\ challenges = <<challenge>>
    /\ model_results = <<>>
    /\ judge_model = FALSE
    /\ llm_client = None
    /\ Start

SpecExtract ==
    InitExtract /\ [][\/ pc = "generate" /\ \E r \in Texts : GenerateRule(r)
                      \/ pc = "generate" /\ \E r \in Documents : GenerateRule(r)
                      \/ pc = "generate" /\ \E r \in ScanTexts : GenerateRule(r)
                      \/ ExtractRules
                      \/ CodeBlocks
                      \/ DirectExtraction
                      \/ CleanRule
                      \/ ReturnRules]_vars

(***************************************************************************)
(* Benchmark.run: the loop over the challenges of a level, with an         *)
(* exception possible in every step of the evaluation of a challenge       *)
(***************************************************************************)
MaxChallenges == 2

\* a variant of the loop: a challenge that raised ends the run
NextChallengeUnlessRaised ==
    /\ pc = "done"
    /\ model_results' = Append(model_results, result)
    /\ IF Len(model_results') < Len(challenges) /\ exception = None
       THEN /\ challenge' = challenges[Len(model_results') + 1]
            /\ pc' = "generate"
            /\ response' = None
            /\ extractor' = NoLocals
            /\ rule' = None
            /\ eval_results' = <<>>
            /\ evaluator' = 0
            /\ engine' = "unknown"
            /\ log' = <<>>
            /\ exception' = None
            /\ result' = None
       ELSE /\ pc' = "finished"
            /\ UNCHANGED <<challenge, response, extractor, rule, eval_results, evaluator,
                           engine, log, exception, result>>
    /\ UNCHANGED <<challenges, judge_model, llm_client>>

\* the body of the loop once _evaluate_challenge has returned: the result is
\* appended, and the next challenge, if there is one, is evaluated
NextChallenge ==
    /\ pc = "done"
    /\ model_results' = Append(model_results, result)
    /\ IF Len(model_results') < Len(challenges)
       THEN /\ challenge' = challenges[Len(model_results') + 1]
            /\ pc' = "generate"
            /\ response' = None
            /\ extractor' = NoLocals
            /\ rule' = None
            /\ eval_results' = <<>>
            /\ evaluator' = 0
            /\ engine' = "unknown"
            /\ log' = <<>>
            /\ exception' = None
            /\ result' = None
       ELSE /\ pc' = "finished"
            /\ UNCHANGED <<challenge, response, extractor, rule, eval_results, evaluator,
                           engine, log, exception, result>>
    /\ UNCHANGED <<challenges, judge_model, llm_client>>

\* the runs of at most MaxChallenges challenges without test files and
\* without a judge
InitRun ==
    /\ challenges \in
         UNION {{[k \in 1..n |->
                    [id |-> <<"c1", "c2", "c3", "c4">>[k], actionable |-> a[k],
                     expected_strings |-> <<>>, expected_keywords |-> <<>>,
                     test_files |-> <<>>]] :
                  a \in [1..n -> BOOLEAN]} : n \in 1..MaxChallenges}
    /\ challenge = challenges[1]
    /\ model_results = <<>>
    /\ judge_model = FALSE
    /\ llm_client = None
    /\ Start

SpecRun ==
    /\ InitRun
    /\ [][\/ \E r \in {Prose, PlainRule} : GenerateRule(r)
          \/ GenerateRuleRaises
          \/ Raises
          \/ ExtractRules
          \/ CodeBlocks
          \/ DirectExtraction
          \/ CleanRule
          \/ ReturnRules
          \/ CorrectAbstention
          \/ NoRuleExtracted
          \/ EvaluateRule
          \/ RunYaraValidator
          \/ RunFileMatcher
          \/ ReturnResult
          \/ NextChallenge]_vars

(***************************************************************************)
(* LLMJudge.evaluate on its own, with or without a client                  *)
(***************************************************************************)
InitJudge ==
    /\ challenge \in {c \in Challenges : c.test_files = <<>> /\ c.expected_keywords = <<>>}
    /\ challenges = <<challenge>>
    /\ model_results = <<>>
    /\ llm_client \in {None, <<"LLMClient">>}
    /\ judge_model = Truthy(llm_client)
    /\ pc = "judge"
    /\ response = None
    /\ extractor = NoLocals
    /\ rule \in {PlainRule, <<"RULE", " ", "R", " ", "{", " ", "condition:", " ", "true", " ", "}">>}
    /\ eval_results = <<>>
    /\ evaluator = 0
    /\ engine = "unknown"
    /\ log = <<>>
    /\ exception = None
    /\ result = None

\* judge.evaluate(challenge, rule)
JudgeEvaluates ==
    /\ pc = "judge"
    /\ \E reply \in JudgeReplies :
         /\ eval_results' = LLMJudge_evaluate(llm_client, reply)
         /\ log' = IF Truthy(llm_client)
                   THEN Append(log, Call("_get_llm_evaluation", "LLMJudge", rule, reply))
                   ELSE log
    /\ pc' = "judged"
    /\ UNCHANGED <<challenges, model_results, llm_client, exception>>
    /\ UNCHANGED <<challenge, judge_model, response, extractor, rule, evaluator, engine, result>>

SpecJudge == InitJudge /\ [][JudgeEvaluates]_vars

(***************************************************************************)
(* The decoding of one test file's content: FileMatcher.evaluate, the      *)
(* first try block of its loop                                             *)
(***************************************************************************)
MaxChars == 4

\* content_b64 is any string of at most MaxChars of these characters
InitBase64 ==
    /\ challenge \in
         UNION {{[id |-> "c1", actionable |-> TRUE, expected_strings |-> <<>>,
                  expected_keywords |-> <<>>,
                  test_files |-> <<[name |-> "a.bin", should_match |-> TRUE,
                                    content_b64 |-> s]>>] :
                    s \in [1..n -> {"A", "=", "<tick>", "\n", "\"", " "}]} : n \in 0..MaxChars}
    /\ challenges = <<challenge>>
    /\ model_results = <<>>
    /\ judge_model = FALSE
    /\ llm_client = None
    /\ pc = "decode"
    /\ response = None
    /\ extractor = NoLocals
    /\ rule = None
    /\ eval_results = <<>>
    /\ evaluator = 0
    /\ engine = "ok"
    /\ log = <<>>
    /\ exception = None
    /\ result = None

\* fixed_b64 = fix_base64_padding(test_file.content_b64), then
\* base64.b64decode(fixed_b64)
DecodeContent ==
    /\ pc = "decode"
    /\ LET content_b64 == challenge.test_files[1].content_b64
           fixed_b64 == fix_base64_padding(content_b64)
       IN  log' = <<Call("fix_base64_padding", "FileMatcher", content_b64, fixed_b64),
                    Call("base64.b64decode", "FileMatcher", fixed_b64, b64decode(fixed_b64))>>
    /\ pc' = "decoded"
    /\ UNCHANGED <<challenges, model_results, llm_client, exception>>
    /\ UNCHANGED <<challenge, judge_model, response, extractor, rule, eval_results,
                   evaluator, engine, result>>

SpecBase64 == InitBase64 /\ [][DecodeContent]_vars

(***************************************************************************)
(* YaraValidator.evaluate alone, on any rule text                          *)
(***************************************************************************)
MaxTokens == 6

\* the rule is the minimal rule or any text of at most MaxTokens of the
\* tokens the structural checks look for
InitValidate ==
    /\ challenge = [id |-> "c1", actionable |-> TRUE, expected_strings |-> <<>>,
                    expected_keywords |-> <<>>, test_files |-> <<>>]
    /\ challenges = <<challenge>>
    /\ model_results = <<>>
    /\ judge_model = FALSE
    /\ llm_client = None
    /\ pc = "evaluate"
    /\ response = None
    /\ extractor = NoLocals
    /\ rule \in {PlainRule} \union
                UNION {[1..n -> {"rule", " ", "{", "}", "condition:"}] : n \in 0..MaxTokens}
    /\ eval_results = <<>>
    /\ evaluator = 1
    /\ engine = "unknown"
    /\ log = <<>>
    /\ exception = None
    /\ result = None

SpecValidate == InitValidate /\ [][RunYaraValidator]_vars

(***************************************************************************)
(* llm/client.py: LLMClient.generate_rule and its retries. Here llm_client *)
(* holds the benchmark Config the client was built under, its ModelConfig  *)
(* and the retry_count of the running call; log holds the API calls, each  *)
(* with the content it returned or the exception it raised, and the        *)
(* sleeps; delays are in seconds.                                          *)
(***************************************************************************)
MaxRetries == 4

\* a client about to make its first API call; Config.max_retries and
\* Config.retry_delay are any of 0..MaxRetries and 1, 2
InitClient ==
    /\ challenge = [id |-> "c1", actionable |-> TRUE, expected_strings |-> <<>>,
                    expected_keywords |-> <<>>, test_files |-> <<>>]
    /\ challenges = <<challenge>>
    /\ model_results = <<>>
    /\ judge_model = FALSE
    /\ llm_client \in [config : [max_retries : 0..MaxRetries, retry_delay : {1, 2}],
                       model_config : {[name |-> "gpt-4o", temperature |-> 0,
                                        max_tokens |-> 2000, timeout |-> 30]},
                       retry_count : {0}]
    /\ pc = "create"
    /\ response = None
    /\ extractor = NoLocals
    /\ rule = None
    /\ eval_results = <<>>
    /\ evaluator = 0
    /\ engine = "unknown"
    /\ log = <<>>
    /\ exception = None
    /\ result = None

\* the API call returns a message with this content: return content or ""
CreateReturns(content) ==
    /\ pc = "create"
    /\ log' = Append(log, Call("chat.completions.create", "LLMClient",
                               llm_client.retry_count, [content |-> content]))
    /\ response' = IF Truthy(content) THEN content ELSE <<>>
    /\ pc' = "returned"
    /\ UNCHANGED <<challenges, model_results, llm_client, exception>>
    /\ UNCHANGED <<challenge, judge_model, extractor, rule, eval_results, evaluator,
                   engine, result>>

\* a variant of the except branch: the retries of the benchmark Config
CreateRaises_reading_config ==
    /\ pc = "create"
    /\ LET max_retries == llm_client.config.max_retries
           retry_delay == llm_client.config.retry_delay
           retry_count == llm_client.retry_count
           create == Call("chat.completions.create", "LLMClient", retry_count,
                          [exception |-> "e"])
       IN  IF retry_count < max_retries
           THEN /\ log' = log \o <<create, Call("time.sleep", "LLMClient", retry_count,
                                                retry_delay * 2^retry_count)>>
                /\ llm_client' = [llm_client EXCEPT !.retry_count = retry_count + 1]
                /\ UNCHANGED <<pc, exception>>
           ELSE /\ log' = Append(log, create)
                /\ exception' = <<"Failed to generate rule after ", max_retries,
                                  " retries: ", "e">>
                /\ pc' = "raised"
                /\ UNCHANGED llm_client
    /\ UNCHANGED <<challenges, model_results, challenge, judge_model, response, extractor,
                   rule, eval_results, evaluator, engine, result>>

\* the API call raises: the except branch sleeps and calls generate_rule
\* again with retry_count + 1, or raises
CreateRaises ==
    /\ pc = "create"
    /\ LET max_retries == Get(llm_client.model_config, "max_retries", 3)
           retry_delay == Get(llm_client.model_config, "retry_delay", 1)
           retry_count == llm_client.retry_count
           create == Call("chat.completions.create", "LLMClient", retry_count,
                          [exception |-> "e"])
       IN  IF retry_count < max_retries
           THEN /\ log' = log \o <<create, Call("time.sleep", "LLMClient", retry_count,
                                                retry_delay * 2^retry_count)>>
                /\ llm_client' = [llm_client EXCEPT !.retry_count = retry_count + 1]
                /\ UNCHANGED <<pc, exception>>
           ELSE /\ log' = Append(log, create)
                /\ exception' = <<"Failed to generate rule after ", max_retries,
                                  " retries: ", "e">>
                /\ pc' = "raised"
                /\ UNCHANGED llm_client
    /\ UNCHANGED <<challenges, model_results, challenge, judge_model, response, extractor,
                   rule, eval_results, evaluator, engine, result>>

\* every API call ends: it returns or it raises (the request has a timeout)
SpecClient ==
    /\ InitClient
    /\ [][\/ \E content \in {None, Prose, PlainRule} : CreateReturns(content)
          \/ CreateRaises]_vars
    /\ WF_vars((\E content \in {None, Prose, PlainRule} : CreateReturns(content))
               \/ CreateRaises)

(***************************************************************************)
(* Properties                                                              *)
(***************************************************************************)
\* the challenge is done and its rule was evaluated
Evaluated == pc = "done" /\ result # None /\ result.generated_rule # None

\* C1: every RuleResult of a challenge has 0 <= score <= 1, whatever the
\* extractor, the evaluators and the judge (its per-criterion scores
\* included) return.
C1_ScoreInUnitInterval ==
    pc = "done" => RLe(RZero, result.score) /\ RLe(result.score, ROne)

\* C2: a challenge that is not actionable and for which extraction returns
\* no rule -- in particular whenever the response carries the phrase
\* "not actionable" -- gets a RuleResult without generated_rule, with
\* valid_syntax true and score exactly 1.
C2_CorrectAbstention ==
    [][(/\ pc = "extracted"
        /\ ~challenge.actionable
        /\ \/ extractor.cleaned_rules = <<>>
           \/ Contains(Lower(response), <<"not", " ", "actionable">>))
       => (/\ pc' = "done"
           /\ result'.generated_rule = None
           /\ result'.valid_syntax = TRUE
           /\ result'.score = ROne)]_vars

C2_Witness ==
    /\ pc = "done"
    /\ ~challenge.actionable
    /\ Contains(Lower(response), <<"not", " ", "actionable">>)
    /\ Contains(response, PlainRule)
    /\ result.generated_rule = None
    /\ result.valid_syntax
    /\ result.score = ROne

\* C3: an actionable challenge for which extraction returns no rule -- in
\* particular whenever the response has no rule keyword -- gets a RuleResult
\* with valid_syntax false, score exactly 0 and the non-empty diagnostic that
\* no rule was extracted.
C3_ExtractionFailure ==
    [][(/\ pc = "extracted"
        /\ challenge.actionable
        /\ \/ extractor.cleaned_rules = <<>>
           \/ ~Contains(Lower(response), <<"rule">>))
       => (/\ pc' = "done"
           /\ result'.valid_syntax = FALSE
           /\ result'.score = RZero
           /\ result'.error = <<"No valid YARA rule extracted">>
           /\ result'.error # None)]_vars

C3_Witness ==
    /\ pc = "done"
    /\ challenge.actionable
    /\ response = Prose
    /\ ~result.valid_syntax
    /\ result.score = RZero
    /\ result.error = <<"No valid YARA rule extracted">>

\* C4: extract_rules returns the empty list for every response whose
\* lowercased text contains one of the abstention phrases, even if the
\* response also holds a well-formed rule, fenced or not; this is decided
\* before any extraction step runs.
C4_AbstentionOverrides ==
    [][(/\ pc = "extract_rules"
        /\ \E phrase \in {<<"not", " ", "actionable">>,
                          <<"cannot", " ", "be", " ", "detected">>,
                          <<"no", " ", "yara", " ", "rule">>,
                          <<"not", " ", "possible">>,
                          <<"cannot", " ", "create">>,
                          <<"not", " ", "suitable">>,
                          <<"beyond", " ", "yara">>,
                          <<"beyond", " ", "the", " ", "capabilities">>} :
              Contains(Lower(response), phrase))
       => (/\ pc' = "extracted"
           /\ extractor'.cleaned_rules = <<>>
           /\ extractor' = NoLocals)]_vars

C4_Witness ==
    /\ pc = "extracted"
    /\ Contains(Lower(response), <<"not", " ", "actionable">>)
    /\ Contains(response, FenceOpen \o PlainRule \o FenceClose)
    /\ extractor.cleaned_rules = <<>>

C6_MatchScore ==
    Evaluated =>
        LET files == challenge.test_files
            observed == result.execution_results
            right == {i \in 1..Len(files) :
                        (IF files[i].name \in DOMAIN observed
                         THEN observed[files[i].name] ELSE FALSE) = files[i].should_match}
            matches == match_score(challenge, eval_results)
        IN  /\ observed # <<>> => matches = Rat(Cardinality(right), Len(files))
            /\ observed = <<>> => matches = RZero
            /\ observed # <<>> /\ Len(files) = 2 /\ Cardinality(right) = 2 => matches = ROne
            /\ observed # <<>> /\ Len(files) = 2 /\ Cardinality(right) = 1 => matches = Rat(1, 2)

C6_Witness ==
    /\ Evaluated
    /\ Len(challenge.test_files) = 2
    /\ challenge.test_files[1].should_match /\ ~challenge.test_files[2].should_match
    /\ result.execution_results # <<>>
    /\ result.execution_results[challenge.test_files[1].name]
    /\ result.execution_results[challenge.test_files[2].name]
    /\ match_score(challenge, eval_results) = Rat(1, 2)

\* C7: string_score is the number of expected strings found over the number
\* of expected strings, and 1 when none is expected; keyword_score likewise
\* over the expected keywords; both lie in [0, 1], the found lists being
\* sub-lists of the expected lists.
C7_FeatureScores ==
    Evaluated =>
        LET SubList(found, expected) ==
                found = SelectSeq(expected, LAMBDA e : \E k \in 1..Len(found) : found[k] = e)
            Score(found, expected) ==
                IF Len(expected) = 0 THEN ROne ELSE Rat(Len(found), Len(expected))
            InUnit(x) == RLe(RZero, x) /\ RLe(x, ROne)
        IN  /\ string_score(challenge, eval_results)
                 = Score(result.expected_strings_found, challenge.expected_strings)
            /\ keyword_score(challenge, eval_results)
                 = Score(result.expected_keywords_found, challenge.expected_keywords)
            /\ SubList(result.expected_strings_found, challenge.expected_strings)
            /\ SubList(result.expected_keywords_found, challenge.expected_keywords)
            /\ InUnit(string_score(challenge, eval_results))
            /\ InUnit(keyword_score(challenge, eval_results))

C7_Witness ==
    /\ Evaluated
    /\ Len(challenge.expected_strings) = 2
    /\ result.expected_strings_found = <<<<"evil">>>>
    /\ string_score(challenge, eval_results) = Rat(1, 2)
    /\ challenge.expected_keywords = <<>>
    /\ keyword_score(challenge, eval_results) = ROne

\* C8: within the evaluation of a challenge, every engine compile call on a
\* rule comes after a run of the Structural Validator on that same rule.
C8_ValidatorBeforeCompile ==
    \A k \in 1..Len(log) :
        log[k].op = "yara.compile" =>
            \E j \in 1..(k - 1) :
                log[j].op = "_validate_structure" /\ log[j].arg = log[k].arg

C8_Witness ==
    \E k \in 1..Len(log) :
        /\ log[k].op = "yara.compile"
        /\ log[k].by = "FileMatcher"
        /\ log[1].op = "_validate_structure"
        /\ log[1].arg = log[k].arg

\* C9: when the Structural Validator rejects a rule, the engine's compile is
\* never invoked on that rule during the evaluation of the challenge.
C9_RejectionSkipsCompile ==
    \A k \in 1..Len(log) :
        log[k].op = "_validate_structure" /\ log[k].out # None =>
            \A j \in 1..Len(log) :
                ~(log[j].op = "yara.compile" /\ log[j].arg = log[k].arg)

\* C10: whenever a sub-step of the evaluation of an extracted rule fails
\* (structural rejection, engine syntax or compilation error, decode or
\* match failure of a test file), the RuleResult has a non-null error; the
\* diagnostic of the syntax/feature evaluator survives the merge of the
\* later evaluators' results.
C10_FailureInError ==
    Evaluated =>
        /\ (\E k \in 1..Len(log) :
               \/ log[k].op = "_validate_structure" /\ log[k].out # None
               \/ log[k].op = "yara.compile" /\ log[k].out # "ok"
               \/ log[k].op = "match" /\ log[k].out \in {"decode_error", "match_error"})
           => result.error # None
        /\ \A k \in 1..Len(log) :
               log[k].op = "_validate_structure" /\ log[k].out # None
                   => result.error = log[k].out

\* C11: every challenge handed to a run yields exactly one RuleResult, in
\* order; an exception raised by generation, extraction, an evaluator or
\* the scoring of a challenge becomes a result with score 0, valid_syntax
\* false and the exception text as error, and the challenges after it are
\* still evaluated.
C11_OneResultPerChallenge ==
    /\ Len(model_results) <= Len(challenges)
    /\ \A k \in 1..Len(model_results) : model_results[k].challenge_id = challenges[k].id
    /\ pc = "finished" <=> Len(model_results) = Len(challenges)
    /\ pc # "finished" => challenge = challenges[Len(model_results) + 1]
    /\ pc = "done" /\ exception # None =>
          /\ result.challenge_id = challenge.id
          /\ result.score = RZero
          /\ result.valid_syntax = FALSE
          /\ result.error = exception

C11_Witness ==
    /\ pc = "finished"
    /\ Len(model_results) = 2
    /\ model_results[1].error = <<"e">>
    /\ model_results[1].score = RZero
    /\ model_results[1].challenge_id = "c1"
    /\ model_results[2].challenge_id = "c2"
    /\ model_results[2].generated_rule = PlainRule
    /\ model_results[2].valid_syntax

\* C12 (as amended): when obtaining the judge's response raises, or parsing
\* it raises, LLMJudge.evaluate returns llm_judge_score 0, a feedback string
\* and details that carry the error text; without a client it returns
\* llm_judge_score 0 and the feedback "LLM judge not configured", with empty
\* details.
C12_JudgeFailureAmended ==
    pc = "judged" =>
        /\ DOMAIN eval_results = {"llm_judge_score", "llm_judge_feedback", "llm_judge_details"}
        /\ ~Truthy(llm_client) =>
              /\ eval_results.llm_judge_score = RZero
              /\ eval_results.llm_judge_feedback = <<"LLM judge not configured">>
              /\ eval_results.llm_judge_details = <<>>
        /\ Truthy(llm_client) /\ log[1].out.kind \in {"raises", "json_not_object"} =>
              /\ eval_results.llm_judge_score = RZero
              /\ eval_results.llm_judge_feedback = <<"LLM judge error: ", "e">>
              /\ eval_results.llm_judge_details = [error |-> "e"]

C12_Witness ==
    /\ pc = "judged"
    /\ Truthy(llm_client)
    /\ log[1].out.kind = "json_not_object"
    /\ eval_results.llm_judge_score = RZero
    /\ eval_results.llm_judge_details = [error |-> "e"]

\* C12 (as stated): the details carry the error text also when no client is
\* configured.
C12_JudgeFailure ==
    pc = "judged" /\ (~Truthy(llm_client) \/ log[1].out.kind \in {"raises", "json_not_object"}) =>
        /\ eval_results.llm_judge_score = RZero
        /\ Truthy(eval_results.llm_judge_feedback)
        /\ Truthy(eval_results.llm_judge_details)
        /\ "error" \in DOMAIN eval_results.llm_judge_details

\* C13: a judge text that is present but is not the JSON object of criteria
\* gives every criterion the score 5 and llm_judge_score exactly 1/2.
C13_NeutralDefault ==
    pc = "judged" /\ Truthy(llm_client) /\ log[1].out.kind \in {"not_json", "json_not_object"} =>
        /\ eval_results.llm_judge_score = Rat(1, 2)
        /\ \A k \in 1..Len(required_keys) :
              /\ required_keys[k] \in DOMAIN eval_results.llm_judge_details
              /\ eval_results.llm_judge_details[required_keys[k]].score = 5

\* C14: for every judge response, partial ones included, llm_judge_score
\* lies between 0 and 1.
C14_JudgeScoreInUnitInterval ==
    pc = "judged" =>
        /\ RLe(RZero, eval_results.llm_judge_score)
        /\ RLe(eval_results.llm_judge_score, ROne)

\* C15: a rule of the response that comes right after one or more import
\* lines, with only whitespace in between, is returned by extract_rules with
\* those import lines as its prefix: no returned rule begins at the rule
\* keyword of such an occurrence.
C15_ImportsIncluded ==
    pc = "extracted" =>
        \A k \in 1..Len(extractor.cleaned_rules) :
            \A i \in 1..Len(response) :
                /\ OccursAt(extractor.cleaned_rules[k], response, i)
                /\ StartsWith(extractor.cleaned_rules[k], <<"rule", " ">>)
                => \A j \in 0..(i - 1) :
                       i \notin {Ends(Cat(<<Lit("import"), Spaces1, Lit("\""),
                                            Plus(NotIn({"\""})), Lit("\""), Spaces>>),
                                      response, j, FALSE)[e] :
                                     e \in 1..Len(Ends(Cat(<<Lit("import"), Spaces1, Lit("\""),
                                                             Plus(NotIn({"\""})), Lit("\""), Spaces>>),
                                                       response, j, FALSE))}

\* C16: a response that holds two well-formed rules whose bodies differ, in
\* two fenced blocks or on lines of plain text, yields exactly two rules: for
\* the plain rule and the two rules that differ only in the condition after
\* the same hex string.
C16_DistinctRulesKept ==
    LET HexRule(condition) ==
            <<"rule", " ", "R", " ", "{", " ", "strings:", " ", "$a", " ", "=", " ",
              "{", " ", "6576696c", " ", "}", " ", "condition:", " ">>
            \o condition \o <<" ", "}">>
        WellFormed == {PlainRule, HexRule(<<"$a">>), HexRule(<<"not", " ", "$a">>)}
        Lines(r) == r \o <<"\n">>
        Fenced(r) == FenceOpen \o r \o FenceClose \o <<"\n">>
    IN  pc = "extracted" =>
            \A a \in WellFormed : \A b \in WellFormed \ {a} :
                response \in {Fenced(a) \o Fenced(b), Lines(a) \o Lines(b)}
                => Len(extractor.cleaned_rules) = 2

\* C17: the rules extract_rules returns are in the order in which they occur
\* in the response, also when the fenced blocks carry different tags: of two
\* returned rules that occur in the response, the one returned first occurs
\* first; so extract_single_rule returns the returned rule that occurs first.
C17_SourceOrder ==
    pc = "extracted" =>
        \A k \in 1..Len(extractor.cleaned_rules) :
            \A l \in (k + 1)..Len(extractor.cleaned_rules) :
                /\ Find(response, extractor.cleaned_rules[k], 0) # -1
                /\ Find(response, extractor.cleaned_rules[l], 0) # -1
                => Find(response, extractor.cleaned_rules[k], 0)
                       < Find(response, extractor.cleaned_rules[l], 0)

\* C18: no two rules of the list extract_rules returns are equal after
\* collapsing whitespace runs; a response that repeats a byte-identical rule,
\* in two fenced blocks or on lines of plain text, yields exactly one rule;
\* and a returned rule whose body, the text from the rule keyword on, is that
\* of a rule returned before it has an import line the earlier one lacks.
C18_NoDuplicates ==
    LET returned == extractor.cleaned_rules
        Keyword(r) == Find(Lower(r), <<"rule", " ">>, 0)
        Body(r) == CollapseSpace(Slice(r, Keyword(r), Len(r)))
        ImportsOf(r) == {Strip(SplitLines(Slice(r, 0, Keyword(r)))[n]) :
                             n \in 1..Len(SplitLines(Slice(r, 0, Keyword(r))))}
                          \ {<<>>}
        Lines(r) == r \o <<"\n">>
        Fenced(r) == FenceOpen \o r \o FenceClose \o <<"\n">>
    IN  pc = "extracted" =>
            /\ \A k \in 1..Len(returned) : \A l \in (k + 1)..Len(returned) :
                   /\ CollapseSpace(Strip(returned[k])) # CollapseSpace(Strip(returned[l]))
                   /\ Body(returned[k]) = Body(returned[l])
                      => ImportsOf(returned[l]) \ ImportsOf(returned[k]) # {}
            /\ response \in {Fenced(PlainRule) \o Fenced(PlainRule),
                              Lines(PlainRule) \o Lines(PlainRule)}
               => Len(returned) = 1

C20_CleanIdempotent ==
    \A k \in 1..Len(extractor.rules) :
        _clean_rule(_clean_rule(extractor.rules[k])) = _clean_rule(extractor.rules[k])

\* C21: section reordering returns unchanged every rule that holds a string
\* or regex literal with a { or } in it, and each such literal of a candidate
\* of extract_rules is in the cleaned candidate as it was. A literal runs, on
\* one line, from a double quote to the next unescaped double quote or from
\* a / to the next unescaped /.
C21_BraceLiteralsUntouched ==
    LET Step(m, c) ==
            IF m.escaped THEN [m EXCEPT !.escaped = FALSE]
            ELSE IF c = "\\" /\ m.literal # "none" THEN [m EXCEPT !.escaped = TRUE]
            ELSE IF m.literal = "none"
                 THEN [m EXCEPT !.literal = IF c = "\"" THEN "string"
                                            ELSE IF c = "/" THEN "regex" ELSE "none"]
            ELSE IF (m.literal = "string" /\ c = "\"") \/ (m.literal = "regex" /\ c = "/")
                 THEN [m EXCEPT !.literal = "none"]
            ELSE m
        RECURSIVE Before(_, _)
        Before(t, n) ==
            IF n = 1 THEN <<[literal |-> "none", escaped |-> FALSE]>>
            ELSE LET before == Before(t, n - 1)
                 IN  Append(before, Step(before[n - 1], t[n - 1]))
        Opens(t, before, i) ==
            before[i].literal = "none" /\ ~before[i].escaped /\ t[i] \in {"\"", "/"}
        BraceLiterals(t, before) ==
            {<<i, k>> \in (1..Len(t)) \X (1..Len(t)) :
                /\ i < k
                /\ Opens(t, before, i)
                /\ \A n \in (i + 1)..k : before[n].literal # "none" /\ t[n] # "\n"
                /\ before[k + 1].literal = "none"
                /\ \E n \in (i + 1)..(k - 1) : t[n] \in {"{", "}"}}
        Literals(t) == {SubSeq(t, ik[1], ik[2]) : ik \in BraceLiterals(t, Before(t, Len(t) + 1))}
    IN  pc = "extracted" =>
            \A c \in 1..Len(extractor.rules) :
                \A literal \in Literals(extractor.rules[c]) :
                    /\ _normalize_section_order(extractor.rules[c]) = extractor.rules[c]
                    /\ Contains(_clean_rule(extractor.rules[c]), literal)

\* C22: whatever content_b64 is, what fix_base64_padding returns is over the
\* base64 alphabet, has a length that is a multiple of 4 and decodes without
\* raising.
C22_PaddedDecodes ==
    pc = "decoded" =>
        /\ \A k \in 1..Len(log[1].out) : log[1].out[k] \in Base64Alphabet
        /\ Len(log[1].out) % 4 = 0
        /\ log[2].out = "ok"

\* C23: when the execution evaluator has run, the keys of execution_results
\* are names of the challenge's test files. When the rule compiled, every
\* test file has been processed and has an entry, and the entry of a file
\* whose decoding or matching failed is false. Without test files or with a
\* failed compile execution_results is empty.
C23_ExecutionResults ==
    [][NextEvaluator("FileMatcher") /\ evaluator' = evaluator + 1 =>
          LET test_files == challenge.test_files
              names == {test_files[i].name : i \in 1..Len(test_files)}
              execution_results == eval_results'.execution_results
              calls == SubSeq(log', Len(log) + 1, Len(log'))
              compiled == test_files # <<>> /\ calls[1].op = "yara.compile" /\ calls[1].out = "ok"
          IN  /\ DOMAIN execution_results \subseteq names
              /\ compiled =>
                    /\ DOMAIN execution_results = names
                    /\ Len(calls) = 1 + Len(test_files)
                    /\ \A i \in 1..Len(test_files) :
                          /\ calls[1 + i].op = "match"
                          /\ calls[1 + i].arg = test_files[i].name
                          /\ calls[1 + i].out \in {"decode_error", "match_error"}
                                => execution_results[test_files[i].name] = FALSE
              /\ ~compiled => execution_results = <<>>]_vars

\* the first file's content does not decode, the second file is matched
C23_Witness ==
    /\ Len(challenge.test_files) = 2
    /\ evaluator = 3
    /\ Len(log) >= 3
    /\ log[Len(log) - 1] = Call("match", "FileMatcher", challenge.test_files[1].name, "decode_error")
    /\ log[Len(log)] = Call("match", "FileMatcher", challenge.test_files[2].name, "match")
    /\ eval_results.execution_results[challenge.test_files[1].name] = FALSE
    /\ eval_results.execution_results[challenge.test_files[2].name] = TRUE

\* C24: _validate_structure returns a diagnostic exactly when the rule is
\* empty or whitespace only, has no rule keyword followed by a space, no {,
\* no }, no condition: marker, or different numbers of { and }; the
\* diagnostic is that of the first of these, in this order; the minimal rule
\* rule R { condition: true } gets none.
C24_StructuralDiagnostics ==
    evaluator = 2 =>
        LET text == log[1].arg
            diagnostic == log[1].out
            Has(tok) == \E k \in 1..Len(text) : text[k] = tok
            Number(tok) == Cardinality({k \in 1..Len(text) : text[k] = tok})
            applies == <<\A k \in 1..Len(text) : text[k] \in Space,
                         ~\E k \in 1..(Len(text) - 1) : text[k] = "rule" /\ text[k + 1] = " ",
                         ~Has("{"),
                         ~Has("}"),
                         ~Has("condition:"),
                         Number("{") # Number("}")>>
            reports == <<"Empty rule",
                         "Incomplete rule structure - missing 'rule' keyword",
                         "Incomplete rule structure - missing opening brace",
                         "Incomplete rule structure - missing closing brace",
                         "Incomplete rule structure - missing condition",
                         "Incomplete rule structure - unbalanced braces">>
        IN  /\ log[1].op = "_validate_structure"
            /\ text = rule
            /\ diagnostic # None <=> \E k \in 1..6 : applies[k]
            /\ \A k \in 1..6 :
                  applies[k] /\ (\A j \in 1..(k - 1) : ~applies[j]) => diagnostic = <<reports[k]>>
            /\ text = PlainRule => diagnostic = None
            /\ eval_results.error = diagnostic \/ Len(log) = 2

\* a rule without a condition whose braces do not balance: the missing
\* condition is reported
C24_Witness ==
    /\ evaluator = 2
    /\ rule = <<"rule", " ", "{", "{", "}">>
    /\ log = <<Call("_validate_structure", "YaraValidator", rule,
                    <<"Incomplete rule structure - missing condition">>)>>
    /\ eval_results.error = <<"Incomplete rule structure - missing condition">>

\* C25: the evaluators run in the order syntax/feature evaluator, execution
\* evaluator, judge, the first on empty results; after the step of each the
\* merged results hold the keys they held and the keys it returned, a key it
\* returned with the value it returned, any other key with the value it had.
C25_MergeOrder ==
    [][pc = "evaluate" /\ evaluator' = evaluator + 1 =>
          \A calls \in {SubSeq(log', Len(log) + 1, Len(log'))} :
          \A returned \in
               {CASE evaluator = 1 ->
                       YaraValidator_evaluate(challenge, rule,
                           IF Len(calls) = 2 THEN calls[2].out ELSE "ok").results
                  [] evaluator = 2 ->
                       FileMatcher_evaluate(challenge, rule,
                           IF calls = <<>> THEN "ok" ELSE calls[1].out,
                           [i \in 1..Len(challenge.test_files) |->
                               IF Len(calls) > i THEN calls[i + 1].out ELSE "no_match"]).results
                  [] OTHER -> LLMJudge_evaluate(llm_client, calls[1].out)} :
              /\ evaluator \in 1..3
              /\ \A k \in 1..Len(calls) :
                    calls[k].by = <<"YaraValidator", "FileMatcher", "LLMJudge">>[evaluator]
              /\ evaluator = 1 => eval_results = <<>>
              /\ evaluator = 3 => judge_model
              /\ DOMAIN eval_results' = DOMAIN eval_results \union DOMAIN returned
              /\ \A key \in DOMAIN eval_results' :
                    eval_results'[key] = IF key \in DOMAIN returned THEN returned[key]
                                         ELSE eval_results[key]]_vars

\* the syntax/feature evaluator returned a diagnostic under "error", the
\* execution evaluator returned null under it: the merged error is null
C25_Witness ==
    /\ pc = "evaluate"
    /\ evaluator > Len(evaluators(judge_model))
    /\ judge_model
    /\ \E k \in 1..Len(log) : /\ log[k].op = "_validate_structure"
                              /\ log[k].out = <<"Incomplete rule structure - unbalanced braces">>
    /\ \E k \in 1..Len(log) : log[k].by = "FileMatcher" /\ log[k].op = "match"
    /\ eval_results.error = None
    /\ eval_results.valid_syntax = FALSE
    /\ "llm_judge_score" \in DOMAIN eval_results

\* C26: when the execution evaluator has run and the rule compiled, the
\* error it returned is the diagnostic of the last test file, in the order
\* of test_files, whose decoding or matching failed, and null when no file
\* failed.
C26_LastDiagnosticWins ==
    [][NextEvaluator("FileMatcher") /\ evaluator' = evaluator + 1 =>
          LET test_files == challenge.test_files
              calls == SubSeq(log', Len(log) + 1, Len(log'))
              compiled == test_files # <<>> /\ calls[1].op = "yara.compile" /\ calls[1].out = "ok"
              failed == {i \in 1..Len(test_files) :
                            calls[1 + i].out \in {"decode_error", "match_error"}}
              last == CHOOSE i \in failed : \A j \in failed : j <= i
          IN  compiled =>
                 /\ failed = {} => eval_results'.error = None
                 /\ failed # {} =>
                       eval_results'.error =
                           <<IF calls[1 + last].out = "decode_error"
                             THEN "Failed to decode " ELSE "Failed to match ",
                             test_files[last].name, ": ", "e">>]_vars

\* the first file does not decode, the match on the second raises: the
\* diagnostic is that of the second
C26_Witness ==
    /\ Len(challenge.test_files) = 2
    /\ evaluator = 3
    /\ Len(log) >= 3
    /\ log[Len(log) - 1] = Call("match", "FileMatcher", challenge.test_files[1].name, "decode_error")
    /\ log[Len(log)] = Call("match", "FileMatcher", challenge.test_files[2].name, "match_error")
    /\ eval_results.error = <<"Failed to match ", challenge.test_files[2].name, ": ", "e">>

\* C27: extraction from the whole response runs only when the fenced blocks
\* yielded no candidate; and when a candidate stands in a fenced block, no
\* candidate that stands outside every fenced block is returned. The fences
\* of a response pair up in order, opening then closing, and a candidate
\* stands in a fenced block when it occurs after an opening fence that is
\* not yet closed.
C27_FencedBlocksFirst ==
    LET Fences(i) == Cardinality({n \in 1..i : response[n] = Ticks})
        InFence(candidate) ==
            \E i \in 0..(Len(response) - Len(candidate)) :
                OccursAt(candidate, response, i) /\ Fences(i) % 2 = 1
        returned == {extractor.cleaned_rules[k] : k \in 1..Len(extractor.cleaned_rules)}
    IN  /\ pc = "direct" => extractor.rules = <<>>
        /\ pc = "extracted" /\ (\E k \in 1..Len(extractor.rules) : InFence(extractor.rules[k])) =>
              \A k \in 1..Len(extractor.rules) :
                  _clean_rule(extractor.rules[k]) \in returned => InFence(extractor.rules[k])

\* C28: every rule extract_rules returns has the structure rule, identifier,
\* {, condition:, } in this order, and its braces balance: a returned rule
\* without a quote or a slash, so without a literal, has as many { as };
\* a response without a condition: marker yields the empty list, and
\* extract_single_rule yields none for it.
C28_OnlyWellFormedRules ==
    pc = "extracted" =>
        /\ \A n \in 1..Len(extractor.cleaned_rules) :
              LET cleaned == extractor.cleaned_rules[n]
                  At(tok) == {k \in 1..Len(cleaned) : cleaned[k] = tok}
              IN  /\ \E i \in At("rule") \union At("RULE") : \E j \in At("{") :
                      \E k \in At("condition:") : \E l \in At("}") :
                          /\ i + 2 <= j /\ j < k /\ k < l
                          /\ cleaned[i + 1] \in Space
                          /\ cleaned[i + 2] \notin Space \union {"{"}
                  /\ At("\"") \union At("/") = {} =>
                        Cardinality(At("{")) = Cardinality(At("}"))
        /\ ~Contains(response, <<"condition:">>) =>
              /\ extractor.cleaned_rules = <<>>
              /\ extract_single_rule(extractor.cleaned_rules) = None

C30_ReorderingPermutesLines ==
    pc = "extracted" =>
        \A c \in 1..Len(extractor.rules) :
            LET candidate == extractor.rules[c]
                before == SplitLines(candidate)
                after == SplitLines(_normalize_section_order(candidate))
                Times(lines, line) == Cardinality({k \in 1..Len(lines) : lines[k] = line})
                Opens(line, section) == StartsWith(Strip(line), <<section>>)
            IN  ~Search(BraceInLiteral, candidate, FALSE) =>
                   /\ \A k \in 1..Len(before) :
                         Times(after, before[k]) = Times(before, before[k])
                   /\ Len(after) = Len(before)
                   /\ \A i \in 1..Len(after) : \A j \in (i + 1)..Len(after) :
                         /\ Opens(after[j], "meta:") =>
                               ~Opens(after[i], "strings:") /\ ~Opens(after[i], "condition:")
                         /\ Opens(after[j], "strings:") => ~Opens(after[i], "condition:")

====
